---- MODULE Spec2Model ----
(***************************************************************************)
(* The lock-fairness benchmark harnesses of HSCL:                          *)
(*   test_lock/upscale_mutex.c            (pthread lock types)             *)
(*   test_lock/upscale_fairness_test.c    (hierarchical fair lock)         *)
(*   test_lock/upscale_fairness_cgroups.c (fair lock, cgroup hierarchy)    *)
(* One coordinating thread (main) validates the command line, builds the   *)
(* hierarchy, initialises the lock and the store, launches the workers,    *)
(* sleeps, raises the stop flag, joins and cleans up.  Every worker runs   *)
(* the loop  select operation / acquire / store operation / release.       *)
(*                                                                         *)
(* Doubles (the operation ratios and the drawn value op_rand) are kept as  *)
(* integers in tenths: ONE stands for 1.0.  Cycle-counter readings (rdtsc) *)
(* and the timing accumulators derived from them are left out; where the   *)
(* code branches on a reading the branch is a nondeterministic choice.     *)
(***************************************************************************)
EXTENDS Integers, Sequences, FiniteSets, TLC

\* ---------------------------------------------------------------- bounds
\* MaxWorkers: largest accepted thread count explored.
\* MaxOps: loop iterations started in one run, all workers together.
\* MaxDuration: largest duration argument explored, in seconds.
MaxWorkers == 2
MaxOps == 2
MaxDuration == 1
\* MaxVectorLen: thread counts up to which every vector of operation counts
\* over CountInputs is a report input (longer vectors are two-valued).
MaxVectorLen == 3
\* MaxKeys: most keys inserted before the lookups of the lookup inputs.
MaxKeys == 3

\* ------------------------------------------------------ program constants
MAX_THREADS == 16
ONE == 10
LOCK_MUTEX == 0
LOCK_SPIN == 1
LOCK_RWLOCK == 2
LOCK_ADAPTIVE_MUTEX == 3
HIERARCHY_FLAT == 0
HIERARCHY_BALANCED == 1
HIERARCHY_SKEWED == 2
HIERARCHY_DEEP == 3
HIERARCHY_GROUPED == 4
CGROUP_REALTIME == 3
CGROUP_BATCH == 4
CGROUP_INTERACTIVE == 5

NoThread == 0 - 1
NoArg == <<>>
Running == 0 - 1

OP_INSERT == "OP_INSERT"
OP_FIND == "OP_FIND"
OP_UPDATE == "OP_UPDATE"
NoOp == "none"
\* No store call was made by the operation.
NoCall == "no call"
\* A difference of two rdtsc readings taken around a store call.
ElapsedCycles == 1

\* The three harness binaries.
Progs == {"upscale_mutex", "upscale_fairness_test", "upscale_fairness_cgroups"}
FairProgs == {"upscale_fairness_test", "upscale_fairness_cgroups"}

VARIABLES
    prog,                \* the binary that runs
    arg_num_threads,     \* atoi(argv[1])
    arg_duration,        \* atoi(argv[2])
    arg_insert_ratio,    \* atof(argv[4]) in tenths, or the default 0.3
    arg_find_ratio,      \* atof(argv[5]) in tenths, or the default 0.6
    arg_selector,        \* <<atoi(argv[6])>>, or NoArg when argc <= 6
    mainpc,              \* position of main
    exit_status,         \* Running, or the status main returned
    current_lock_type,   \* upscale_mutex: static current_lock_type
    hierarchy_type,      \* upscale_fairness_test: main's hierarchy_type
    hierarchy,           \* node array (empty before it is built)
    cgroup_thread_count, \* cgroups[i].thread_count
    lock_state,          \* "static", "ready" or "destroyed"
    locks,               \* owner of every lock object
    store_open,          \* the environment and the database exist
    store,               \* keys in the database
    threads,             \* thread_config_t threads[]
    created,             \* workers pthread_create started
    create_failed,       \* a pthread_create call failed
    joined,              \* loop index of the join loop
    slept,               \* seconds main has slept so far
    global_stop,
    next_key_id,
    last_thread_id,
    last_hierarchy,
    consecutive_same_thread,
    consecutive_same_hierarchy,
    hierarchy_switches,
    wpc,                 \* position of every worker
    local,               \* locals of worker_thread and of the calls it made
                         \* (key_id: the key id of the last lookup, kept
                         \* until the next loop test;
                         \* setup_ret, rt_ret: what the start-up calls
                         \* answered, kept until the first loop test)
    registered,          \* per worker, its hfairlock_thread_init calls
    handed_out,          \* history: key ids returned by get_next_key_id
    releases,            \* history: unlock calls per worker
    report,              \* the fairness figures main printed
    acquired,            \* history: upscale_mutex workers in the order they
                         \* took the lock
    ops_at_stop          \* history: total_operations when the flag rose

vars == <<prog, arg_num_threads, arg_duration, arg_insert_ratio, arg_find_ratio,
          arg_selector, mainpc, exit_status, current_lock_type, hierarchy_type,
          hierarchy, cgroup_thread_count, lock_state, locks, store_open, store,
          threads, created, create_failed, joined, slept, global_stop,
          next_key_id, last_thread_id, last_hierarchy, consecutive_same_thread,
          consecutive_same_hierarchy, hierarchy_switches, wpc, local,
          registered, handed_out, releases, report, acquired,
          ops_at_stop>>

argvars == <<prog, arg_num_threads, arg_duration, arg_insert_ratio,
             arg_find_ratio, arg_selector>>

trackvars == <<last_thread_id, last_hierarchy, consecutive_same_thread,
               consecutive_same_hierarchy, hierarchy_switches>>

\* ---------------------------------------------------------------- helpers
Shr(x, n) == x \div (2 ^ n)

WorkerIds == 0 .. (MaxWorkers - 1)

EmptyArray == [i \in {} |-> 0]

\* double update_ratio = 1.0 - insert_ratio - find_ratio
update_ratio_of(ins, fnd) == ONE - ins - fnd

\* ------------------------------------------------------------- hierarchy
\* One node_t; the cs, banned_until and slice fields hold 0 or a clock reading.
Node(i, p, w) == [id |-> i, parent |-> p, weight |-> w]

init_flat_hierarchy(num_threads) ==
    [i \in 0 .. num_threads |-> Node(i, 0, 0)]

\* Mutant: the parent is computed as i / 2.
init_balanced_hierarchy_half(num_threads) ==
    [i \in 0 .. num_threads |->
        IF i = 0 THEN Node(0, 0, 0) ELSE Node(i, i \div 2, 0)]

init_balanced_hierarchy(num_threads) ==
    [i \in 0 .. num_threads |->
        IF i = 0 THEN Node(0, 0, 0) ELSE Node(i, (i - 1) \div 2, 0)]

\* Mutant: the chain ends one node earlier (i < mid).
init_skewed_hierarchy_short_chain(num_threads) ==
    LET mid == num_threads \div 2
    IN  [i \in 0 .. num_threads |->
            IF i = 0 THEN Node(0, 0, 0)
            ELSE IF i < mid THEN Node(i, i - 1, 0) ELSE Node(i, 0, 0)]

init_skewed_hierarchy(num_threads) ==
    LET mid == num_threads \div 2
    IN  [i \in 0 .. num_threads |->
            IF i = 0 THEN Node(0, 0, 0)
            ELSE IF i <= mid THEN Node(i, i - 1, 0) ELSE Node(i, 0, 0)]

\* Mutant: every node of the chain is its own parent.
init_deep_hierarchy_self_parent(num_threads) ==
    [i \in 0 .. num_threads |-> Node(i, i, 0)]

init_deep_hierarchy(num_threads) ==
    [i \in 0 .. num_threads |->
        IF i = 0 THEN Node(0, 0, 0) ELSE Node(i, i - 1, 0)]

init_grouped_hierarchy(num_threads) ==
    LET num_groups == 4
        num_nodes == num_threads + num_groups + 1
    IN  [n \in 0 .. num_nodes - 1 |->
            IF n = 0 THEN Node(0, 0, 0)
            ELSE IF n <= num_groups THEN Node(n, 0, 0)
            ELSE Node(n, ((n - (num_groups + 1)) % num_groups) + 1, 1024)]

\* switch (type) of init_hierarchy, with its default branch
init_hierarchy(num_threads, type) ==
    CASE type = HIERARCHY_FLAT -> init_flat_hierarchy(num_threads)
      [] type = HIERARCHY_BALANCED -> init_balanced_hierarchy(num_threads)
      [] type = HIERARCHY_SKEWED -> init_skewed_hierarchy(num_threads)
      [] type = HIERARCHY_DEEP -> init_deep_hierarchy(num_threads)
      [] type = HIERARCHY_GROUPED -> init_grouped_hierarchy(num_threads)
      [] OTHER -> init_flat_hierarchy(num_threads)

\* Mutant: argv[6] is taken without the range check.
parse_hierarchy_type_unchecked(sel) ==
    IF sel # NoArg THEN sel[1] ELSE HIERARCHY_FLAT

\* main of upscale_fairness_test: hierarchy_type stays HIERARCHY_FLAT unless
\* argv[6] is present and lies in 0..4.
parse_hierarchy_type(sel) ==
    IF sel # NoArg /\ sel[1] >= 0 /\ sel[1] <= 4 THEN sel[1] ELSE HIERARCHY_FLAT

\* main of upscale_mutex: lock_type = argc > 6 ? atoi(argv[6]) : LOCK_MUTEX
parse_lock_type(sel) == IF sel # NoArg THEN sel[1] ELSE LOCK_MUTEX

\* cgroups[] as init_cgroup_configs fills it (index = cgroup_id).
num_cgroups == 6

cgroups ==
    [c \in 0 .. num_cgroups - 1 |->
        CASE c = 0 -> [type |-> 0, weight |-> 1024, nice_value |-> 0,
                       rt_priority |-> 0, throttle_quota |-> 0,
                       max_threads |-> MAX_THREADS]
          [] c = 1 -> [type |-> 1, weight |-> 2048, nice_value |-> 0 - 10,
                       rt_priority |-> 10, throttle_quota |-> 0,
                       max_threads |-> 4]
          [] c = 2 -> [type |-> CGROUP_REALTIME, weight |-> 4096,
                       nice_value |-> 0 - 20, rt_priority |-> 20,
                       throttle_quota |-> 0, max_threads |-> 2]
          [] c = 3 -> [type |-> CGROUP_INTERACTIVE, weight |-> 1536,
                       nice_value |-> 0 - 5, rt_priority |-> 0,
                       throttle_quota |-> 0, max_threads |-> 6]
          [] c = 4 -> [type |-> 2, weight |-> 1024, nice_value |-> 0,
                       rt_priority |-> 0, throttle_quota |-> 0,
                       max_threads |-> 8]
          [] OTHER -> [type |-> CGROUP_BATCH, weight |-> 512,
                       nice_value |-> 10, rt_priority |-> 0,
                       throttle_quota |-> 50, max_threads |-> 4]]

\* Mutant: the first three threads go to the real-time cgroup.
cgroup_idx_of_three_realtime(i) ==
    IF i < 3 THEN 2
    ELSE IF i < 4 THEN 1
    ELSE IF i < 8 THEN 3
    ELSE IF i < 12 THEN 4
    ELSE 5

\* The distribution policy shared by init_cgroups_hierarchy and
\* configure_threads_for_cgroups.
cgroup_idx_of(i) ==
    IF i < 2 THEN 2
    ELSE IF i < 4 THEN 1
    ELSE IF i < 8 THEN 3
    ELSE IF i < 12 THEN 4
    ELSE 5

init_cgroups_hierarchy(num_threads) ==
    LET cgroup_nodes == num_cgroups - 1
        total_nodes == 1 + cgroup_nodes + num_threads
    IN  [n \in 0 .. total_nodes - 1 |->
            IF n = 0 THEN Node(0, 0, cgroups[0].weight)
            ELSE IF n <= cgroup_nodes THEN Node(n, 0, cgroups[n].weight)
            ELSE Node(n, cgroup_idx_of(n - num_cgroups), 1024)]

\* cgroups[cgroup_idx].thread_count++ for every thread node
count_cgroup_threads(num_threads) ==
    [c \in 0 .. num_cgroups - 1 |->
        Cardinality({i \in 0 .. num_threads - 1 : cgroup_idx_of(i) = c})]

\* --------------------------------------------------------- thread records
\* thread_config_t with the statistics main zeroes before the launch.
ThreadRecord(i, level, prio, w, node, cg, ins, fnd) ==
    [thread_id |-> i, hierarchy_level |-> level, priority |-> prio,
     weight |-> w, parent_node |-> node, cgroup_id |-> cg,
     insert_ratio |-> ins, find_ratio |-> fnd,
     update_ratio |-> update_ratio_of(ins, fnd),
     insert_count |-> 0, find_count |-> 0, update_count |-> 0,
     total_operations |-> 0, lock_acquisitions |-> 0,
     max_consecutive_acquisitions |-> 0, dominated_lower_threads |-> 0,
     starved_by_higher |-> 0, slice_violations |-> 0,
     cgroup_throttle_time |-> 0]

\* upscale_mutex main: hierarchy_level = i % 5
configure_threads_mutex(num_threads, ins, fnd) ==
    [i \in 0 .. num_threads - 1 |->
        ThreadRecord(i, i % 5, 0, 0, 0, 0, ins, fnd)]

thread_priority(type, i, num_threads) ==
    CASE type = HIERARCHY_FLAT -> (0 - 10) + (i % 20)
      [] type = HIERARCHY_BALANCED -> (0 - 5) + (i % 10)
      [] type = HIERARCHY_SKEWED ->
            IF i < num_threads \div 2 THEN (0 - 10) + i ELSE 0
      [] type = HIERARCHY_DEEP -> (0 - 15) + i
      [] type = HIERARCHY_GROUPED -> (0 - 10) + (i % 4) * 5
      [] OTHER -> 0

thread_weight(type, i, num_threads) ==
    CASE type = HIERARCHY_FLAT -> Shr(1024, i % 4)
      [] type = HIERARCHY_BALANCED -> 512 + (i % 3) * 256
      [] type = HIERARCHY_SKEWED ->
            IF i < num_threads \div 2 THEN Shr(2048, i) ELSE 1024
      [] type = HIERARCHY_DEEP -> 1024 + i * 128
      [] type = HIERARCHY_GROUPED -> Shr(1024, i % 4)
      [] OTHER -> 1024

\* Mutant: every topology binds thread i to node i + 1.
thread_parent_node_one_based(type, i) == i + 1

thread_parent_node(type, i) ==
    IF type = HIERARCHY_GROUPED THEN 4 + 1 + i ELSE i + 1

configure_threads_for_hierarchy(num_threads, type, ins, fnd) ==
    [i \in 0 .. num_threads - 1 |->
        ThreadRecord(i, 0, thread_priority(type, i, num_threads),
                     thread_weight(type, i, num_threads),
                     thread_parent_node(type, i), 0, ins, fnd)]

cgroup_thread_weight(i) ==
    IF i < 2 THEN 2048
    ELSE IF i < 4 THEN 1536
    ELSE IF i < 8 THEN 1280
    ELSE IF i < 12 THEN 1024
    ELSE 512

configure_threads_for_cgroups(num_threads, ins, fnd) ==
    [i \in 0 .. num_threads - 1 |->
        ThreadRecord(i, 0, cgroups[cgroup_idx_of(i)].nice_value,
                     cgroup_thread_weight(i), (num_cgroups - 1) + 1 + i,
                     cgroup_idx_of(i), ins, fnd)]

\* ------------------------------------------------------------------ Init
\* Command lines: thread counts below, inside and above [1, MAX_THREADS],
\* ratio pairs (insert, find) in tenths, an optional seventh argument
\* (upscale_fairness_cgroups reads no seventh argument).
ThreadCountInputs == {0} \cup (1 .. MaxWorkers) \cup {MAX_THREADS + 1}
DurationInputs == 0 .. MaxDuration
RatioInputs == {<<3, 6>>, <<0, ONE>>, <<6, 5>>, <<0 - 5, 3>>}
SelectorInputs == {NoArg} \cup {<<n>> : n \in (0 - 1) .. 5}

AllCommandLines ==
    [prog : Progs, num_threads : ThreadCountInputs, duration : DurationInputs,
     ratios : RatioInputs, selector : SelectorInputs]

\* How many arguments of c differ from the default run (MaxWorkers threads,
\* MaxDuration seconds, the default ratios 0.3 and 0.6, no seventh argument).
Departures(c) ==
    (IF c.num_threads # MaxWorkers THEN 1 ELSE 0)
    + (IF c.duration # MaxDuration THEN 1 ELSE 0)
    + (IF c.ratios # <<3, 6>> THEN 1 ELSE 0)
    + (IF c.selector # NoArg THEN 1 ELSE 0)

\* The command lines explored: every one that main rejects, and of those it
\* accepts the ones that vary at most one argument of the default run.
CommandLines ==
    {c \in AllCommandLines :
        /\ c.prog = "upscale_fairness_cgroups" => c.selector = NoArg
        /\ \/ c.num_threads \notin 1 .. MAX_THREADS
           \/ c.ratios[1] + c.ratios[2] > ONE
           \/ Departures(c) <= 1}

\* main's reading of the command line c.
Arguments(c) ==
    /\ prog = c.prog
    /\ arg_num_threads = c.num_threads
    /\ arg_duration = c.duration
    /\ arg_insert_ratio = c.ratios[1]
    /\ arg_find_ratio = c.ratios[2]
    /\ arg_selector = c.selector

\* A double of the report, held exactly as the fraction num / den.  den = 0
\* is what a division by 0.0 leaves: NaN when num = 0 too, infinity otherwise.
\* The counts of the runs explored are far below 2^53, so every sum and
\* product of the report is exact in a double.
Ratio(n, d) == [num |-> n, den |-> d]

\* A figure the harness does not print.
NotPrinted == Ratio(0 - 1, 0 - 1)

NoReport == [jain |-> NotPrinted, gini |-> NotPrinted, spread |-> NotPrinted,
             spread_na |-> FALSE, fairness_index |-> NotPrinted,
             ops_per_sec |-> <<>>, actual_share |-> <<>>]

\* The globals as the program starts.
Globals ==
    /\ mainpc = "validate"
    /\ exit_status = Running
    /\ current_lock_type = LOCK_MUTEX
    /\ hierarchy_type = HIERARCHY_FLAT
    /\ hierarchy = EmptyArray
    /\ cgroup_thread_count = [c \in 0 .. num_cgroups - 1 |-> 0]
    /\ lock_state = "static"
    /\ locks = [l \in {"global_mutex", "global_spinlock", "global_rwlock",
                       "global_adaptive_mutex", "global_fairlock"} |-> NoThread]
    /\ store_open = FALSE
    /\ store = {}
    /\ threads = EmptyArray
    /\ created = 0
    /\ create_failed = FALSE
    /\ joined = 0
    /\ slept = 0
    /\ global_stop = 0
    /\ next_key_id = 1
    /\ last_thread_id = 0 - 1
    /\ last_hierarchy = 4
    /\ consecutive_same_thread = 0
    /\ consecutive_same_hierarchy = 0
    /\ hierarchy_switches = 0
    /\ wpc = [t \in WorkerIds |-> "idle"]
    /\ local = [t \in WorkerIds |->
                   [op_rand |-> 0, op_type |-> NoOp,
                    operations_since_throttle |-> 0, st |-> NoCall,
                    printed |-> "none", operation_time |-> 0,
                    setup_ret |-> "none", rt_ret |-> "none",
                    usleep |-> 0, throttle_usleep |-> 0,
                    slice_end |-> 0, current_time |-> 0, key_id |-> 0]]
    /\ registered = [t \in WorkerIds |-> <<>>]
    /\ handed_out = <<>>
    /\ releases = [t \in WorkerIds |-> 0]
    /\ report = NoReport
    /\ acquired = <<>>
    /\ ops_at_stop = [t \in WorkerIds |-> 0]

Init == (\E c \in CommandLines : Arguments(c)) /\ Globals

\* The command lines of the fair-lock harnesses with every thread count main
\* accepts and every seventh argument, the other arguments as in the default
\* run.
SetupCommandLines ==
    {c \in [prog : FairProgs, num_threads : 1 .. MAX_THREADS,
            duration : {MaxDuration}, ratios : {<<3, 6>>},
            selector : SelectorInputs] :
        c.prog = "upscale_fairness_cgroups" => c.selector = NoArg}

SetupInit == (\E c \in SetupCommandLines : Arguments(c)) /\ Globals

\* ------------------------------------------------------------------ main
\* if (num_threads > MAX_THREADS || num_threads < 1) return 1;
valid_thread_count(n) == ~(n > MAX_THREADS \/ n < 1)

\* Mutant: the ratio sum is not checked.
valid_ratios_unchecked(ins, fnd) == TRUE

\* if (insert_ratio + find_ratio > 1.0) return 1;
valid_ratios(ins, fnd) == ~(ins + fnd > ONE)

\* return <status> from main
Return(status) ==
    /\ mainpc' = "done"
    /\ exit_status' = status

\* The argument checks of main.  upscale_fairness_test has parsed argv[6]
\* into hierarchy_type before it makes them.
Validate ==
    /\ mainpc = "validate"
    /\ hierarchy_type' = IF prog = "upscale_fairness_test"
                         THEN parse_hierarchy_type(arg_selector)
                         ELSE hierarchy_type
    /\ IF ~valid_thread_count(arg_num_threads) THEN Return(1)
       ELSE IF ~valid_ratios(arg_insert_ratio, arg_find_ratio) THEN Return(1)
       ELSE /\ mainpc' = IF prog = "upscale_mutex" THEN "init_lock"
                         ELSE "init_hierarchy"
            /\ UNCHANGED exit_status
    /\ UNCHANGED <<argvars, report, acquired, current_lock_type, hierarchy, cgroup_thread_count,
                   lock_state, locks, store_open, store, threads, created,
                   create_failed, joined, slept, global_stop, next_key_id,
                   trackvars, wpc, local, registered, handed_out, releases,
                   ops_at_stop>>

\* init_hierarchy(num_threads, hierarchy_type), or init_cgroup_configs and
\* init_cgroups_hierarchy(num_threads)
InitHierarchy ==
    /\ mainpc = "init_hierarchy"
    /\ IF prog = "upscale_fairness_cgroups"
       THEN /\ hierarchy' = init_cgroups_hierarchy(arg_num_threads)
            /\ cgroup_thread_count' = count_cgroup_threads(arg_num_threads)
       ELSE /\ hierarchy' = init_hierarchy(arg_num_threads, hierarchy_type)
            /\ UNCHANGED cgroup_thread_count
    /\ mainpc' = "init_lock"
    /\ UNCHANGED <<argvars, report, acquired, exit_status, current_lock_type, hierarchy_type,
                   lock_state, locks, store_open, store, threads, created,
                   create_failed, joined, slept, global_stop, next_key_id,
                   trackvars, wpc, local, registered, handed_out, releases,
                   ops_at_stop>>

\* Mutant: an unknown type is accepted.
init_lock_results_fallback(type) ==
    CASE type = LOCK_SPIN -> {0, 0 - 1}
      [] type = LOCK_ADAPTIVE_MUTEX -> {0, 0 - 1}
      [] OTHER -> {0}

\* The values init_lock(type) can return: pthread_spin_init and the mutex
\* attribute calls can fail, an unknown type is refused.
init_lock_results(type) ==
    CASE type = LOCK_MUTEX -> {0}
      [] type = LOCK_SPIN -> {0, 0 - 1}
      [] type = LOCK_RWLOCK -> {0}
      [] type = LOCK_ADAPTIVE_MUTEX -> {0, 0 - 1}
      [] OTHER -> {0 - 1}

\* if (init_lock(lock_type) != 0) return 1;
InitLockMutex ==
    /\ mainpc = "init_lock"
    /\ prog = "upscale_mutex"
    /\ current_lock_type' = parse_lock_type(arg_selector)
    /\ \E rc \in init_lock_results(parse_lock_type(arg_selector)) :
          IF rc # 0
          THEN Return(1) /\ UNCHANGED lock_state
          ELSE /\ lock_state' = "ready"
               /\ mainpc' = "create_store"
               /\ UNCHANGED exit_status
    /\ UNCHANGED <<argvars, report, acquired, hierarchy_type, hierarchy, cgroup_thread_count,
                   locks, store_open, store, threads, created, create_failed,
                   joined, slept, global_stop, next_key_id, trackvars, wpc,
                   local, registered, handed_out, releases, ops_at_stop>>

\* if (hfairlock_init(&global_fairlock, hierarchy) != 0) return 1;
InitLockFair ==
    /\ mainpc = "init_lock"
    /\ prog \in FairProgs
    /\ \E ok \in BOOLEAN :
          IF ~ok
          THEN Return(1) /\ UNCHANGED lock_state
          ELSE /\ lock_state' = "ready"
               /\ mainpc' = "create_store"
               /\ UNCHANGED exit_status
    /\ UNCHANGED <<argvars, report, acquired, current_lock_type, hierarchy_type, hierarchy,
                   cgroup_thread_count, locks, store_open, store, threads,
                   created, create_failed, joined, slept, global_stop,
                   next_key_id, trackvars, wpc, local, registered, handed_out,
                   releases, ops_at_stop>>

\* ups_env_create and ups_env_create_db; either can fail
CreateStore ==
    /\ mainpc = "create_store"
    /\ \E ok \in BOOLEAN :
          IF ~ok
          THEN Return(1) /\ UNCHANGED store_open
          ELSE /\ store_open' = TRUE
               /\ mainpc' = "configure"
               /\ UNCHANGED exit_status
    /\ UNCHANGED <<argvars, report, acquired, current_lock_type, hierarchy_type, hierarchy,
                   cgroup_thread_count, lock_state, locks, store, threads,
                   created, create_failed, joined, slept, global_stop,
                   next_key_id, trackvars, wpc, local, registered, handed_out,
                   releases, ops_at_stop>>

\* The configuration loops of main that fill threads[0 .. num_threads-1].
ConfigureThreads ==
    /\ mainpc = "configure"
    /\ threads' =
          CASE prog = "upscale_mutex" ->
                  configure_threads_mutex(arg_num_threads, arg_insert_ratio,
                                          arg_find_ratio)
            [] prog = "upscale_fairness_test" ->
                  configure_threads_for_hierarchy(arg_num_threads,
                      hierarchy_type, arg_insert_ratio, arg_find_ratio)
            [] OTHER ->
                  configure_threads_for_cgroups(arg_num_threads,
                      arg_insert_ratio, arg_find_ratio)
    /\ mainpc' = "create"
    /\ UNCHANGED <<argvars, report, acquired, exit_status, current_lock_type, hierarchy_type,
                   hierarchy, cgroup_thread_count, lock_state, locks,
                   store_open, store, created, create_failed, joined, slept,
                   global_stop, next_key_id, trackvars, wpc, local, registered,
                   handed_out, releases, ops_at_stop>>

\* total_operations of every worker, noted when the flag is first raised
OpsNow == [t \in WorkerIds |->
              IF t \in DOMAIN threads THEN threads[t].total_operations ELSE 0]

\* One pass of the launch loop: pthread_create(&threads[i].thread, ...).
\* On failure: global_stop = 1; break;
CreateThread ==
    /\ mainpc = "create"
    /\ created < arg_num_threads
    /\ \E ok \in BOOLEAN :
          IF ok
          THEN /\ wpc' = [wpc EXCEPT ![created] = "setup"]
               /\ created' = created + 1
               /\ mainpc' = IF created + 1 = arg_num_threads
                            THEN "sleep" ELSE "create"
               /\ UNCHANGED <<create_failed, global_stop, ops_at_stop>>
          ELSE /\ create_failed' = TRUE
               /\ global_stop' = 1
               /\ ops_at_stop' = IF global_stop = 0 THEN OpsNow
                                 ELSE ops_at_stop
               /\ mainpc' = "sleep"
               /\ UNCHANGED <<wpc, created>>
    /\ UNCHANGED <<argvars, report, acquired, exit_status, current_lock_type, hierarchy_type,
                   hierarchy, cgroup_thread_count, lock_state, locks,
                   store_open, store, threads, joined, slept, next_key_id,
                   trackvars, local, registered, handed_out, releases>>

\* Mutant: the sleep returns at once.
sleep_done_at_once(seconds_slept, duration) == TRUE

\* sleep(duration) returns once duration seconds have passed
sleep_done(seconds_slept, duration) == seconds_slept >= duration

\* sleep(duration): one second passes
SleepTick ==
    /\ mainpc = "sleep"
    /\ ~sleep_done(slept, arg_duration)
    /\ slept' = slept + 1
    /\ UNCHANGED <<argvars, report, acquired, mainpc, exit_status, current_lock_type,
                   hierarchy_type, hierarchy, cgroup_thread_count, lock_state,
                   locks, store_open, store, threads, created, create_failed,
                   joined, global_stop, next_key_id, trackvars, wpc, local,
                   registered, handed_out, releases, ops_at_stop>>

\* sleep(duration) returns; global_stop = 1;
SetStop ==
    /\ mainpc = "sleep"
    /\ sleep_done(slept, arg_duration)
    /\ global_stop' = 1
    /\ ops_at_stop' = IF global_stop = 0 THEN OpsNow ELSE ops_at_stop
    /\ mainpc' = "join"
    /\ UNCHANGED <<argvars, report, acquired, exit_status, current_lock_type, hierarchy_type,
                   hierarchy, cgroup_thread_count, lock_state, locks,
                   store_open, store, threads, created, create_failed, joined,
                   slept, next_key_id, trackvars, wpc, local, registered,
                   handed_out, releases>>

\* Mutant: pthread_join does not wait for the worker.
pthread_join_returns_at_once(worker_pc) == TRUE

\* pthread_join on a created worker blocks until worker_thread has returned.
pthread_join_returns(worker_pc) == worker_pc = "finished"

\* pthread_join(threads[i].thread, NULL) on a worker that was created:
\* returns once the worker has returned.
JoinThread ==
    /\ mainpc = "join"
    /\ joined < arg_num_threads
    /\ joined < created
    /\ pthread_join_returns(wpc[joined])
    /\ joined' = joined + 1
    /\ mainpc' = IF joined + 1 = arg_num_threads THEN "cleanup" ELSE "join"
    /\ UNCHANGED <<argvars, report, acquired, exit_status, current_lock_type, hierarchy_type,
                   hierarchy, cgroup_thread_count, lock_state, locks,
                   store_open, store, threads, created, create_failed, slept,
                   global_stop, next_key_id, trackvars, wpc, local, registered,
                   handed_out, releases, ops_at_stop>>

\* The join loop runs to num_threads also after a failed launch, so it
\* reaches threads[i].thread that pthread_create never wrote: the handle is
\* an uninitialised value.  pthread_join returns an error at once, or the
\* process dies on the wild handle.
JoinUncreated ==
    /\ mainpc = "join"
    /\ joined < arg_num_threads
    /\ joined >= created
    /\ \E outcome \in {"returns", "crash"} :
          IF outcome = "returns"
          THEN /\ joined' = joined + 1
               /\ mainpc' = IF joined + 1 = arg_num_threads
                            THEN "cleanup" ELSE "join"
               /\ UNCHANGED exit_status
          ELSE /\ mainpc' = "crashed"
               /\ exit_status' = 139
               /\ UNCHANGED joined
    /\ UNCHANGED <<argvars, report, acquired, current_lock_type, hierarchy_type, hierarchy,
                   cgroup_thread_count, lock_state, locks, store_open, store,
                   threads, created, create_failed, slept, global_stop,
                   next_key_id, trackvars, wpc, local, registered, handed_out,
                   releases, ops_at_stop>>

\* ---------------------------------------------------------------- report
Abs(x) == IF x < 0 THEN 0 - x ELSE x

RECURSIVE total_ops_upto(_, _)
\* for (i = 0; i < num_threads; i++) total_ops += threads[i].total_operations;
total_ops_upto(thr, i) ==
    IF i = 0 THEN 0
    ELSE total_ops_upto(thr, i - 1) + thr[i - 1].total_operations

RECURSIVE min_ops_upto(_, _)
\* min_ops = threads[0].total_operations; if (... < min_ops) min_ops = ...;
min_ops_upto(thr, i) ==
    IF i <= 1 THEN thr[0].total_operations
    ELSE LET m == min_ops_upto(thr, i - 1)
         IN  IF thr[i - 1].total_operations < m
             THEN thr[i - 1].total_operations ELSE m

RECURSIVE max_ops_upto(_, _)
\* max_ops = threads[0].total_operations; if (... > max_ops) max_ops = ...;
max_ops_upto(thr, i) ==
    IF i <= 1 THEN thr[0].total_operations
    ELSE LET m == max_ops_upto(thr, i - 1)
         IN  IF thr[i - 1].total_operations > m
             THEN thr[i - 1].total_operations ELSE m

RECURSIVE sum_ops_squared_upto(_, _)
\* sum_ops_squared += ops * ops;
sum_ops_squared_upto(thr, i) ==
    IF i = 0 THEN 0
    ELSE sum_ops_squared_upto(thr, i - 1)
         + thr[i - 1].total_operations * thr[i - 1].total_operations

RECURSIVE abs_diff_row(_, _, _)
\* the inner loop of the Gini sum: gini += fabs(x_i - x_j) for j < k
abs_diff_row(thr, i, k) ==
    IF k = 0 THEN 0
    ELSE abs_diff_row(thr, i, k - 1)
         + Abs(thr[i].total_operations - thr[k - 1].total_operations)

RECURSIVE abs_diff_sum(_, _, _)
\* the outer loop of the Gini sum, rows i < k
abs_diff_sum(thr, k, num_threads) ==
    IF k = 0 THEN 0
    ELSE abs_diff_sum(thr, k - 1, num_threads)
         + abs_diff_row(thr, k - 1, num_threads)

\* Mutant: the square of the sum is not divided by num_threads.
overall_fairness_index_undivided(thr, num_threads) ==
    Ratio(total_ops_upto(thr, num_threads) * total_ops_upto(thr, num_threads),
          sum_ops_squared_upto(thr, num_threads))

\* (sum_ops * sum_ops) / (num_threads * sum_ops_squared)
overall_fairness_index(thr, num_threads) ==
    Ratio(total_ops_upto(thr, num_threads) * total_ops_upto(thr, num_threads),
          num_threads * sum_ops_squared_upto(thr, num_threads))

\* Mutant: the double sum is divided by num_threads * sum_ops only.
gini_coefficient_undoubled(thr, num_threads) ==
    Ratio(abs_diff_sum(thr, num_threads, num_threads),
          num_threads * total_ops_upto(thr, num_threads))

\* gini = gini / (2.0 * num_threads * sum_ops);
gini_coefficient(thr, num_threads) ==
    Ratio(abs_diff_sum(thr, num_threads, num_threads),
          2 * num_threads * total_ops_upto(thr, num_threads))

\* Mutant: the spread is taken relative to the maximum.
throughput_spread_of_max(thr, num_threads) ==
    Ratio(100 * (max_ops_upto(thr, num_threads)
                 - min_ops_upto(thr, num_threads)),
          max_ops_upto(thr, num_threads))

\* ((max_ops - min_ops) / avg_ops) * 100 with avg_ops = total_ops /
\* num_threads, evaluated only when avg_ops > 0.
throughput_spread(thr, num_threads) ==
    Ratio(100 * (max_ops_upto(thr, num_threads)
                 - min_ops_upto(thr, num_threads)) * num_threads,
          total_ops_upto(thr, num_threads))

\* fairness_index = (avg_ops * avg_ops * num_threads) /
\*                  (total_ops * total_ops / num_threads);
\* the numerator is a double, total_ops^2 / num_threads exactly; the divisor
\* is computed in unsigned long long, so its division truncates.
fairness_index_of(thr, num_threads) ==
    LET total_ops == total_ops_upto(thr, num_threads)
    IN  IF total_ops > 0
        THEN Ratio(total_ops * total_ops,
                   num_threads * ((total_ops * total_ops) \div num_threads))
        ELSE Ratio(0, 1)

\* printf("%.1f", r): r to the nearest tenth, as a number of tenths.
tenths(r) == (20 * r.num + r.den) \div (2 * r.den)

\* double ops_per_sec = (double)t->total_operations / duration, for every
\* thread row of the report
ops_per_sec_rows(thr, num_threads, duration) ==
    [i \in 0 .. num_threads - 1 |-> Ratio(thr[i].total_operations, duration)]

\* cgroup_ops[c]: the operations of the threads of cgroup c
cgroup_ops(thr, num_threads, c) ==
    total_ops_upto([i \in 0 .. num_threads - 1 |->
                       IF thr[i].cgroup_id = c THEN thr[i]
                       ELSE [thr[i] EXCEPT !.total_operations = 0]],
                   num_threads)

\* double actual_share = (double)cgroup_ops[i] / total_ops, for every cgroup
\* below the root that has a thread
actual_share_rows(thr, num_threads) ==
    [c \in {c \in 1 .. num_cgroups - 1 :
               \E i \in 0 .. num_threads - 1 : thr[i].cgroup_id = c} |->
        Ratio(cgroup_ops(thr, num_threads, c),
              total_ops_upto(thr, num_threads))]

\* The figures of print_hierarchy_stats.
print_hierarchy_stats(thr, num_threads, duration) ==
    [jain |-> overall_fairness_index(thr, num_threads),
     gini |-> gini_coefficient(thr, num_threads),
     spread |-> IF total_ops_upto(thr, num_threads) > 0
                THEN throughput_spread(thr, num_threads) ELSE Ratio(0, 1),
     spread_na |-> FALSE,
     fairness_index |-> NotPrinted,
     ops_per_sec |-> ops_per_sec_rows(thr, num_threads, duration),
     actual_share |-> <<>>]

\* The figures of print_fairness_stats and print_cgroups_fairness_stats (the
\* latter alone prints the shares of the cgroups).
print_fairness_stats(thr, num_threads, duration, with_cgroups) ==
    [jain |-> NotPrinted,
     gini |-> NotPrinted,
     spread |-> IF total_ops_upto(thr, num_threads) > 0
                THEN throughput_spread(thr, num_threads) ELSE NotPrinted,
     spread_na |-> ~(total_ops_upto(thr, num_threads) > 0),
     fairness_index |-> fairness_index_of(thr, num_threads),
     ops_per_sec |-> ops_per_sec_rows(thr, num_threads, duration),
     actual_share |-> IF with_cgroups
                      THEN actual_share_rows(thr, num_threads) ELSE <<>>]

\* The report, then ups_db_close, ups_env_close, destroy_lock or
\* hfairlock_destroy (and free(hierarchy)); return 0.
Cleanup ==
    /\ mainpc = "cleanup"
    /\ report' = IF prog = "upscale_mutex"
                 THEN print_hierarchy_stats(threads, arg_num_threads,
                                            arg_duration)
                 ELSE print_fairness_stats(threads, arg_num_threads,
                                           arg_duration,
                                           prog = "upscale_fairness_cgroups")
    /\ store_open' = FALSE
    /\ lock_state' = "destroyed"
    /\ Return(0)
    /\ UNCHANGED <<argvars, acquired, current_lock_type, hierarchy_type,
                   hierarchy,
                   cgroup_thread_count, locks, store, threads, created,
                   create_failed, joined, slept, global_stop, next_key_id,
                   trackvars, wpc, local, registered, handed_out, releases,
                   ops_at_stop>>

\* --------------------------------------------------------------- workers
\* The process is gone once the coordinator has died on a wild handle.
ProcessAlive == mainpc # "crashed"

\* Mutant: the LOCK_RWLOCK case takes no lock.
acquire_target_rwlock_skipped(type) ==
    CASE type = LOCK_MUTEX -> "global_mutex"
      [] type = LOCK_SPIN -> "global_spinlock"
      [] type = LOCK_ADAPTIVE_MUTEX -> "global_adaptive_mutex"
      [] OTHER -> "none"

\* The lock object acquire_lock locks for a lock type (none for a type the
\* switch has no case for).
acquire_target(type) ==
    CASE type = LOCK_MUTEX -> "global_mutex"
      [] type = LOCK_SPIN -> "global_spinlock"
      [] type = LOCK_RWLOCK -> "global_rwlock"
      [] type = LOCK_ADAPTIVE_MUTEX -> "global_adaptive_mutex"
      [] OTHER -> "none"

\* Mutant: the LOCK_SPIN case unlocks the mutex.
release_target_spin_unlocks_mutex(type) ==
    CASE type = LOCK_MUTEX -> "global_mutex"
      [] type = LOCK_SPIN -> "global_mutex"
      [] type = LOCK_RWLOCK -> "global_rwlock"
      [] type = LOCK_ADAPTIVE_MUTEX -> "global_adaptive_mutex"
      [] OTHER -> "none"

\* The lock object release_lock unlocks for a lock type.
release_target(type) ==
    CASE type = LOCK_MUTEX -> "global_mutex"
      [] type = LOCK_SPIN -> "global_spinlock"
      [] type = LOCK_RWLOCK -> "global_rwlock"
      [] type = LOCK_ADAPTIVE_MUTEX -> "global_adaptive_mutex"
      [] OTHER -> "none"

\* The lock a worker of the running binary contends for.
LockInUse ==
    IF prog = "upscale_mutex" THEN acquire_target(current_lock_type)
    ELSE "global_fairlock"

Holds(t) == LockInUse # "none" /\ locks[LockInUse] = t

\* The lock a worker of the running binary unlocks.
LockReleased ==
    IF prog = "upscale_mutex" THEN release_target(current_lock_type)
    ELSE "global_fairlock"

\* op_rand = (double)rand() / RAND_MAX, rand() in 0 .. RAND_MAX: both ends of
\* [0, 1] and the two thresholds of the default mix, in tenths.
RandInputs == {0, 3, 9, ONE}

\* Mutant: the thresholds are compared with <=.
select_operation_inclusive(op_rand, ins, fnd) ==
    IF op_rand <= ins THEN OP_INSERT
    ELSE IF op_rand <= ins + fnd THEN OP_FIND
    ELSE OP_UPDATE

\* if (op_rand < insert_ratio) INSERT
\* else if (op_rand < insert_ratio + find_ratio) FIND else UPDATE
select_operation(op_rand, ins, fnd) ==
    IF op_rand < ins THEN OP_INSERT
    ELSE IF op_rand < ins + fnd THEN OP_FIND
    ELSE OP_UPDATE

\* What setpriority can answer.
SetpriorityResults == {"ok", "EPERM", "EACCES", "other"}

\* setup_thread_hierarchy: every call succeeded, or one of
\* pthread_setaffinity_np, pthread_setschedparam and setpriority failed.
SetupResults == {"ok", "failed"}

\* sched_setscheduler(tid, SCHED_FIFO, ...) of the cgroup worker: tried only
\* for a real-time cgroup with an rt_priority.
RtResults(t) ==
    IF /\ prog = "upscale_fairness_cgroups"
       /\ cgroups[threads[t].cgroup_id].type = CGROUP_REALTIME
       /\ cgroups[threads[t].cgroup_id].rt_priority > 0
    THEN {"ok", "failed"}
    ELSE {"none"}

\* Mutant: every setpriority failure makes the worker return.
setpriority_fatal_always(ret) == ret # "ok"

\* if (ret != 0 && errno != EPERM && errno != EACCES) return NULL;
setpriority_fatal(ret) == ret \notin {"ok", "EPERM", "EACCES"}

\* worker_thread of upscale_mutex before its loop: setup_thread_hierarchy
\* reports a failure to set affinity or priority and goes on.
WorkerSetupMutex(t) ==
    /\ ProcessAlive
    /\ prog = "upscale_mutex"
    /\ wpc[t] = "setup"
    /\ \E ret \in SetupResults :
          local' = [local EXCEPT ![t].setup_ret = ret]
    /\ wpc' = [wpc EXCEPT ![t] = "top"]
    /\ UNCHANGED <<argvars, report, acquired, mainpc, exit_status, current_lock_type,
                   hierarchy_type, hierarchy, cgroup_thread_count, lock_state,
                   locks, store_open, store, threads, created, create_failed,
                   joined, slept, global_stop, next_key_id, trackvars,
                   registered, handed_out, releases, ops_at_stop>>

\* Mutant: the thread registers with its configured weight as it is.
priority_adjusted_weight_plain(weight, priority) == weight

\* int priority_adjusted_weight = config->weight * (20 + config->priority);
priority_adjusted_weight(weight, priority) == weight * (20 + priority)

\* int cgroup_adjusted_weight = cgroup->weight * (config->weight / 1024.0);
\* the double product is exact here and the conversion to int truncates it.
cgroup_adjusted_weight(cgroup_weight, weight) ==
    (cgroup_weight * weight) \div 1024

\* The weight worker t passes to hfairlock_thread_init.
thread_init_weight(t) ==
    IF prog = "upscale_fairness_test"
    THEN priority_adjusted_weight(threads[t].weight, threads[t].priority)
    ELSE cgroup_adjusted_weight(cgroups[threads[t].cgroup_id].weight,
                                threads[t].weight)

\* worker_thread of the fair-lock harnesses before its loop: setpriority
\* (a failure other than EPERM or EACCES returns NULL), then
\* hfairlock_thread_init.
WorkerSetupFair(t) ==
    /\ ProcessAlive
    /\ prog \in FairProgs
    /\ wpc[t] = "setup"
    /\ \E ret \in SetpriorityResults :
          IF setpriority_fatal(ret)
          THEN /\ wpc' = [wpc EXCEPT ![t] = "finished"]
               /\ local' = [local EXCEPT ![t].setup_ret = ret]
               /\ UNCHANGED registered
          ELSE /\ \E rt \in RtResults(t) :
                     local' = [local EXCEPT ![t].setup_ret = ret,
                                            ![t].rt_ret = rt]
               /\ registered' = [registered EXCEPT ![t] =
                     Append(@, [weight |-> thread_init_weight(t),
                                node |-> threads[t].parent_node])]
               /\ wpc' = [wpc EXCEPT ![t] = "top"]
    /\ UNCHANGED <<argvars, report, acquired, mainpc, exit_status, current_lock_type,
                   hierarchy_type, hierarchy, cgroup_thread_count, lock_state,
                   locks, store_open, store, threads, created, create_failed,
                   joined, slept, global_stop, next_key_id, trackvars,
                   handed_out, releases, ops_at_stop>>

\* Mutant: the counter is not reset after a throttle.
throttle_step_no_reset(quota, since) ==
    IF quota > 0 THEN since + 1 ELSE since

\* The throttle block at the top of the cgroup worker's loop: the new value
\* of operations_since_throttle.
throttle_step(quota, since) ==
    IF quota > 0
    THEN IF since + 1 > 100 - quota THEN 0 ELSE since + 1
    ELSE since

\* if (operations_since_throttle > (100 - cgroup->throttle_quota)), tested
\* after the increment and only for a quota above 0.
throttle_due(quota, since) == quota > 0 /\ since + 1 > 100 - quota

\* usleep(1000 * cgroup->throttle_quota / 100), in int arithmetic
throttle_sleep(quota) == (1000 * quota) \div 100

\* Mutant: the loop never sees the flag.
loop_continues_always(stop_flag) == TRUE

\* The loop condition !*config->stop_flag, read at the top of every pass.
loop_continues(stop_flag) == stop_flag = 0

\* while (!*config->stop_flag): the flag is set, the worker leaves the loop
\* and returns.
LoopExit(t) ==
    /\ ProcessAlive
    /\ wpc[t] = "top"
    /\ ~loop_continues(global_stop)
    /\ wpc' = [wpc EXCEPT ![t] = "finished"]
    /\ local' = [local EXCEPT ![t].setup_ret = "none", ![t].rt_ret = "none",
                              ![t].usleep = 0, ![t].slice_end = 0,
                              ![t].current_time = 0,
                              ![t].key_id = 0]
    /\ UNCHANGED <<argvars, report, acquired, mainpc, exit_status, current_lock_type,
                   hierarchy_type, hierarchy, cgroup_thread_count, lock_state,
                   locks, store_open, store, threads, created, create_failed,
                   joined, slept, global_stop, next_key_id, trackvars,
                   registered, handed_out, releases, ops_at_stop>>

\* Loop iterations the workers have started, all workers together.
RECURSIVE IterationsOf(_)
IterationsOf(n) ==
    IF n = 0 THEN 0
    ELSE threads[n - 1].total_operations
         + (IF wpc[n - 1] \in {"acquire", "track", "op"} THEN 1 ELSE 0)
         + IterationsOf(n - 1)

IterationsStarted == IterationsOf(Cardinality(DOMAIN threads))

\* while (!*config->stop_flag): the flag is clear, the worker starts an
\* iteration (throttle block of the cgroup harness, then the draw of op_rand
\* = rand() / RAND_MAX in [0, 1] and the choice of the operation).
LoopPass(t) ==
    /\ ProcessAlive
    /\ wpc[t] = "top"
    /\ loop_continues(global_stop)
    /\ LET cgroup_run == prog = "upscale_fairness_cgroups"
           quota == cgroups[threads[t].cgroup_id].throttle_quota
           since == local[t].operations_since_throttle
           due == cgroup_run /\ throttle_due(quota, since)
       IN  /\ \E op_rand \in RandInputs :
                 local' = [local EXCEPT
                     ![t].op_rand = op_rand,
                     ![t].setup_ret = "none",
                     ![t].rt_ret = "none",
                     ![t].usleep = 0,
                     ![t].slice_end = 0,
                     ![t].current_time = 0,
                     ![t].key_id = 0,
                     ![t].throttle_usleep =
                         IF due THEN throttle_sleep(quota) ELSE 0,
                     ![t].op_type =
                         select_operation(op_rand, threads[t].insert_ratio,
                                          threads[t].find_ratio),
                     ![t].operations_since_throttle =
                         IF cgroup_run THEN throttle_step(quota, @) ELSE @]
           /\ threads' = [threads EXCEPT ![t].cgroup_throttle_time =
                             IF due THEN @ + ElapsedCycles ELSE @]
    /\ wpc' = [wpc EXCEPT ![t] = "acquire"]
    /\ UNCHANGED <<argvars, report, acquired, mainpc, exit_status, current_lock_type,
                   hierarchy_type, hierarchy, cgroup_thread_count, lock_state,
                   locks, store_open, store, created, create_failed,
                   joined, slept, global_stop, next_key_id, trackvars,
                   registered, handed_out, releases, ops_at_stop>>

\* A pass of the loop, within the iteration budget of the explored runs.
LoopEnter(t) == IterationsStarted < MaxOps /\ LoopPass(t)

\* acquire_lock up to the return of pthread_mutex_lock, pthread_spin_lock or
\* pthread_rwlock_wrlock: the call returns when the lock object is free, and
\* the caller then owns it.
AcquireLockMutex(t) ==
    /\ ProcessAlive
    /\ prog = "upscale_mutex"
    /\ wpc[t] = "acquire"
    /\ LET l == acquire_target(current_lock_type)
       IN  IF l = "none" THEN UNCHANGED locks
           ELSE /\ locks[l] = NoThread
                /\ locks' = [locks EXCEPT ![l] = t]
    /\ acquired' = Append(acquired, t)
    /\ wpc' = [wpc EXCEPT ![t] = "track"]
    /\ UNCHANGED <<argvars, report, mainpc, exit_status, current_lock_type,
                   hierarchy_type, hierarchy, cgroup_thread_count, lock_state,
                   store_open, store, threads, created, create_failed, joined,
                   slept, global_stop, next_key_id, trackvars, local,
                   registered, handed_out, releases, ops_at_stop>>

\* Mutant: the comparison reversed, the mark keeps the smaller value.
Max_reversed(a, b) == IF a < b THEN a ELSE b

Max(a, b) == IF a > b THEN a ELSE b

\* Mutant: the dominance counters of the previous holder are incremented.
counted_config_of_last_holder(current_thread, last) ==
    IF last >= 0 THEN last ELSE current_thread

\* config->dominated_lower_threads++ and config->starved_by_higher++ go to the
\* thread_config_t the calling worker was given.
counted_config(current_thread, last) == current_thread

\* Mutant: only a change to a higher level counts as a switch.
level_changed_upward(last_hier, current_hierarchy) ==
    current_hierarchy < last_hier

\* if (last_hier != current_hierarchy) hierarchy_switches++
level_changed(last_hier, current_hierarchy) == last_hier # current_hierarchy

\* The rest of acquire_lock (the last-holder bookkeeping), then in
\* worker_thread lock_acquisitions++ and the max_consecutive update.
TrackAcquisition(t) ==
    /\ ProcessAlive
    /\ prog = "upscale_mutex"
    /\ wpc[t] = "track"
    /\ LET cur == threads[t].hierarchy_level
           same == (last_thread_id = t)
           seen == (~same /\ last_thread_id >= 0)
           cst == IF same THEN consecutive_same_thread + 1 ELSE 1
       IN  /\ consecutive_same_thread' = cst
           /\ last_thread_id' = t
           /\ last_hierarchy' = IF same THEN last_hierarchy ELSE cur
           /\ hierarchy_switches' =
                 IF seen /\ level_changed(last_hierarchy, cur)
                 THEN hierarchy_switches + 1 ELSE hierarchy_switches
           /\ consecutive_same_hierarchy' =
                 IF seen
                 THEN IF level_changed(last_hierarchy, cur) THEN 1
                      ELSE consecutive_same_hierarchy + 1
                 ELSE consecutive_same_hierarchy
           /\ threads' = [threads EXCEPT
                 ![counted_config(t, last_thread_id)].dominated_lower_threads =
                     IF seen /\ cur < last_hierarchy THEN @ + 1 ELSE @,
                 ![counted_config(t, last_thread_id)].starved_by_higher =
                     IF seen /\ cur > last_hierarchy THEN @ + 1 ELSE @,
                 ![t].lock_acquisitions = @ + 1,
                 ![t].max_consecutive_acquisitions = Max(@, cst)]
    /\ wpc' = [wpc EXCEPT ![t] = "op"]
    /\ UNCHANGED <<argvars, report, acquired, mainpc, exit_status, current_lock_type,
                   hierarchy_type, hierarchy, cgroup_thread_count, lock_state,
                   locks, store_open, store, created, create_failed, joined,
                   slept, global_stop, next_key_id, local, registered,
                   handed_out, releases, ops_at_stop>>

\* hfairlock_acquire(&global_fairlock) returns with the caller as the one
\* owner of the lock; lock_acquisitions++.
AcquireLockFair(t) ==
    /\ ProcessAlive
    /\ prog \in FairProgs
    /\ wpc[t] = "acquire"
    /\ locks["global_fairlock"] = NoThread
    /\ locks' = [locks EXCEPT !["global_fairlock"] = t]
    /\ threads' = [threads EXCEPT ![t].lock_acquisitions = @ + 1]
    /\ wpc' = [wpc EXCEPT ![t] = "op"]
    /\ UNCHANGED <<argvars, report, acquired, mainpc, exit_status, current_lock_type,
                   hierarchy_type, hierarchy, cgroup_thread_count, lock_state,
                   store_open, store, created, create_failed, joined, slept,
                   global_stop, next_key_id, trackvars, local, registered,
                   handed_out, releases, ops_at_stop>>

\* Mutant: the value after the addition (__sync_add_and_fetch).
get_next_key_id_result_after(n) == n + 1

\* __sync_fetch_and_add(&next_key_id, 1): the value before the addition
get_next_key_id_result(n) == n

\* ups_db_insert without UPS_OVERWRITE: the key is added, refused as a
\* duplicate, or the call fails for another reason.
InsertStatuses(key) ==
    IF key \in store THEN {"UPS_DUPLICATE_KEY", "OTHER"}
    ELSE {"UPS_SUCCESS", "OTHER"}

\* Mutant: only a successful store call is counted.
operations_completed_on_success(st) == IF st = "UPS_SUCCESS" THEN 1 ELSE 0

\* config->total_operations++ after the switch, whatever the operation
\* returned.
operations_completed(st) == 1

\* The printf after the store call of perform_insert, perform_find and
\* perform_update: the fair-lock harnesses report a status that is neither
\* success nor the expected miss; perform_insert of upscale_mutex does too,
\* its perform_find and perform_update print nothing.
failure_report(operation, st, expected_miss) ==
    IF st \in {"UPS_SUCCESS", expected_miss} THEN "none"
    ELSE IF prog = "upscale_mutex" /\ operation # OP_INSERT THEN "none"
    ELSE "failed"

\* case OP_INSERT: perform_insert, insert_count++; total_operations++
PerformInsert(t) ==
    /\ ProcessAlive
    /\ wpc[t] = "op"
    /\ local[t].op_type = OP_INSERT
    /\ LET key_id == get_next_key_id_result(next_key_id)
           key == <<threads[t].thread_id, key_id>>
       IN  /\ next_key_id' = next_key_id + 1
           /\ handed_out' = Append(handed_out, key_id)
           /\ \E st \in InsertStatuses(key) :
                 /\ store' = IF st = "UPS_SUCCESS" THEN store \cup {key}
                             ELSE store
                 /\ local' = [local EXCEPT
                       ![t].st = st,
                       ![t].printed =
                           failure_report(OP_INSERT, st, "UPS_DUPLICATE_KEY"),
                       ![t].operation_time = ElapsedCycles]
    /\ threads' = [threads EXCEPT
          ![t].insert_count = @ + 1,
          ![t].total_operations = @ + operations_completed(local'[t].st)]
    /\ wpc' = [wpc EXCEPT ![t] = "release"]
    /\ UNCHANGED <<argvars, report, acquired, mainpc, exit_status, current_lock_type,
                   hierarchy_type, hierarchy, cgroup_thread_count, lock_state,
                   locks, store_open, created, create_failed, joined, slept,
                   global_stop, trackvars, registered, releases, ops_at_stop>>

\* Mutant: the empty-keyspace test is left out.
no_keys_never(n) == FALSE

\* if (next_key_id <= 1) return 0; of perform_find and perform_update
no_keys(n) == n <= 1

\* What perform_find prints on the empty keyspace: the fair-lock harnesses
\* print "Error: No keys available for find operation", upscale_mutex nothing.
no_keys_report_find == IF prog \in FairProgs THEN "no_keys" ELSE "none"

\* Mutant: the key id is picked without the 1 +.
LookupKeys_from_zero(n) ==
    {<<target, key_id>> :
        target \in 0 .. MAX_THREADS - 1, key_id \in 0 .. n - 2}

\* key_id = 1 + rand() % (next_key_id - 1), target_thread = rand() %
\* MAX_THREADS: the keys a find or an update can ask for.
LookupKeys(n) == {<<target, key_id>> :
                     target \in 0 .. MAX_THREADS - 1, key_id \in 1 .. n - 1}

\* ups_db_find: the key is found, is missing, or the call fails otherwise.
FindStatuses(key) ==
    IF key \in store THEN {"UPS_SUCCESS", "OTHER"}
    ELSE {"UPS_KEY_NOT_FOUND", "OTHER"}

\* Mutant: the record is written whatever the find returned.
update_writes_always(find_st) == TRUE

\* if (st == UPS_SUCCESS) st = ups_db_insert(..., UPS_OVERWRITE);
update_writes(find_st) == find_st = "UPS_SUCCESS"

\* ups_db_insert with UPS_OVERWRITE: the record is written (the key is added
\* when it was missing), or the call fails.
OverwriteStatuses == {"UPS_SUCCESS", "OTHER"}

\* The status perform_update ends with after a find that returned find_st.
UpdateStatusesAfter(find_st) ==
    IF update_writes(find_st) THEN OverwriteStatuses ELSE {find_st}

\* perform_update: ups_db_find, and on success ups_db_insert with
\* UPS_OVERWRITE, whose status replaces the one of the find.
UpdateStatuses(key) ==
    UNION {UpdateStatusesAfter(find_st) : find_st \in FindStatuses(key)}

\* case OP_FIND: perform_find (returns 0 at once while next_key_id <= 1, else
\* looks up one key), find_count++; total_operations++
PerformFind(t) ==
    /\ ProcessAlive
    /\ wpc[t] = "op"
    /\ local[t].op_type = OP_FIND
    /\ IF no_keys(next_key_id)
       THEN local' = [local EXCEPT ![t].st = NoCall,
                                   ![t].printed = no_keys_report_find,
                                   ![t].operation_time = 0]
       ELSE \E key \in LookupKeys(next_key_id) : \E st \in FindStatuses(key) :
               local' = [local EXCEPT
                   ![t].st = st,
                   ![t].key_id = key[2],
                   ![t].printed =
                       failure_report(OP_FIND, st, "UPS_KEY_NOT_FOUND"),
                   ![t].operation_time = ElapsedCycles]
    /\ threads' = [threads EXCEPT
          ![t].find_count = @ + 1,
          ![t].total_operations = @ + operations_completed(local'[t].st)]
    /\ wpc' = [wpc EXCEPT ![t] = "release"]
    /\ UNCHANGED <<argvars, report, acquired, mainpc, exit_status, current_lock_type,
                   hierarchy_type, hierarchy, cgroup_thread_count, lock_state,
                   locks, store_open, store, created, create_failed, joined,
                   slept, global_stop, next_key_id, trackvars, registered,
                   handed_out, releases, ops_at_stop>>

\* case OP_UPDATE: perform_update (returns 0 at once while next_key_id <= 1,
\* else finds one key and overwrites its record when the find succeeded),
\* update_count++; total_operations++
PerformUpdate(t) ==
    /\ ProcessAlive
    /\ wpc[t] = "op"
    /\ local[t].op_type = OP_UPDATE
    /\ IF no_keys(next_key_id)
       THEN /\ local' = [local EXCEPT ![t].st = NoCall,
                                      ![t].printed = "none",
                                      ![t].operation_time = 0]
            /\ UNCHANGED store
       ELSE \E key \in LookupKeys(next_key_id) :
            \E find_st \in FindStatuses(key) :
            \E st \in UpdateStatusesAfter(find_st) :
               /\ st \in UpdateStatuses(key)
               /\ store' = IF update_writes(find_st) /\ st = "UPS_SUCCESS"
                           THEN store \cup {key} ELSE store
               /\ local' = [local EXCEPT
                     ![t].st = st,
                     ![t].key_id = key[2],
                     ![t].printed =
                         failure_report(OP_UPDATE, st, "UPS_KEY_NOT_FOUND"),
                     ![t].operation_time = ElapsedCycles]
    /\ threads' = [threads EXCEPT
          ![t].update_count = @ + 1,
          ![t].total_operations = @ + operations_completed(local'[t].st)]
    /\ wpc' = [wpc EXCEPT ![t] = "release"]
    /\ UNCHANGED <<argvars, report, acquired, mainpc, exit_status, current_lock_type,
                   hierarchy_type, hierarchy, cgroup_thread_count, lock_state,
                   locks, store_open, created, create_failed, joined,
                   slept, global_stop, next_key_id, trackvars, registered,
                   handed_out, releases, ops_at_stop>>

\* release_lock(), then simulate_work and the occasional sched_yield
ReleaseLockMutex(t) ==
    /\ ProcessAlive
    /\ prog = "upscale_mutex"
    /\ wpc[t] = "release"
    /\ LET l == release_target(current_lock_type)
       IN  IF l = "none" THEN UNCHANGED locks
           ELSE locks' = [locks EXCEPT ![l] = NoThread]
    /\ releases' = [releases EXCEPT ![t] = @ + 1]
    /\ wpc' = [wpc EXCEPT ![t] = "top"]
    /\ UNCHANGED <<argvars, report, acquired, mainpc, exit_status, current_lock_type,
                   hierarchy_type, hierarchy, cgroup_thread_count, lock_state,
                   store_open, store, threads, created, create_failed, joined,
                   slept, global_stop, next_key_id, trackvars, local,
                   registered, handed_out, ops_at_stop>>

\* The microseconds a fair-lock worker sleeps after its release (0: no
\* usleep call).  The cgroup harness tests the class in an else-if chain
\* that ends with the test every worker of upscale_fairness_test makes.
periodic_usleep(p, type, total_operations) ==
    IF p = "upscale_fairness_cgroups"
    THEN IF type = CGROUP_INTERACTIVE /\ total_operations % 50 = 0 THEN 500
         ELSE IF type = CGROUP_BATCH /\ total_operations % 500 = 0 THEN 2000
         ELSE IF total_operations % 100 = 0 THEN 1000
         ELSE 0
    ELSE IF total_operations % 100 = 0 THEN 1000 ELSE 0

\* Readings of the cycle counter: the deadline hfairlock_release returns and
\* the rdtsc() that follows it, before, at and after one another.
ClockInputs == {1, 2}

\* Mutant: a reading equal to the deadline counts as a violation.
slice_violation_inclusive(current_time, slice_end) == current_time >= slice_end

\* if (current_time > slice_end) config->slice_violations++;
slice_violation(current_time, slice_end) == current_time > slice_end

\* hfairlock_release(&global_fairlock) returns slice_end; the worker reads
\* the clock and counts a slice violation when it is past slice_end; then
\* the periodic usleep.
ReleaseLockFair(t) ==
    /\ ProcessAlive
    /\ prog \in FairProgs
    /\ wpc[t] = "release"
    /\ locks' = [locks EXCEPT !["global_fairlock"] = NoThread]
    /\ releases' = [releases EXCEPT ![t] = @ + 1]
    /\ \E slice_end \in ClockInputs, current_time \in ClockInputs :
          /\ threads' = [threads EXCEPT ![t].slice_violations =
                            IF slice_violation(current_time, slice_end)
                            THEN @ + 1 ELSE @]
          /\ local' = [local EXCEPT
                ![t].slice_end = slice_end,
                ![t].current_time = current_time,
                ![t].usleep =
                    periodic_usleep(prog, cgroups[threads[t].cgroup_id].type,
                                    threads[t].total_operations)]
    /\ wpc' = [wpc EXCEPT ![t] = "top"]
    /\ UNCHANGED <<argvars, report, acquired, mainpc, exit_status, current_lock_type,
                   hierarchy_type, hierarchy, cgroup_thread_count, lock_state,
                   store_open, store, created, create_failed, joined, slept,
                   global_stop, next_key_id, trackvars, registered,
                   handed_out, ops_at_stop>>

\* ------------------------------------------------------------------ Next
MainStep ==
    \/ Validate
    \/ InitHierarchy
    \/ InitLockMutex
    \/ InitLockFair
    \/ CreateStore
    \/ ConfigureThreads
    \/ CreateThread
    \/ SleepTick
    \/ SetStop
    \/ JoinThread
    \/ JoinUncreated
    \/ Cleanup

WorkerStep(t) ==
    \/ WorkerSetupMutex(t)
    \/ WorkerSetupFair(t)
    \/ LoopExit(t)
    \/ LoopEnter(t)
    \/ AcquireLockMutex(t)
    \/ TrackAcquisition(t)
    \/ AcquireLockFair(t)
    \/ PerformInsert(t)
    \/ PerformFind(t)
    \/ PerformUpdate(t)
    \/ ReleaseLockMutex(t)
    \/ ReleaseLockFair(t)

Next == MainStep \/ \E t \in WorkerIds : WorkerStep(t)

Spec == Init /\ [][Next]_vars

\* Fair scheduling: every thread that can take a step eventually takes one,
\* and a lock that becomes free again and again is eventually granted to
\* every worker waiting for it.
\* main of the fair-lock harnesses up to the launch loop: the hierarchy, the
\* lock, the store and the thread configurations, for every accepted thread
\* count.
SetupNext ==
    \/ Validate
    \/ InitHierarchy
    \/ InitLockFair
    \/ CreateStore
    \/ ConfigureThreads

SetupSpec == SetupInit /\ [][SetupNext]_vars

\* ------------------------------------------------------- report inputs
\* total_operations values of the report inputs.
CountInputs == {0, 10, 40, 80, 100, 120}

\* Vectors of operation counts of num_threads threads: every vector of the
\* short runs, and of every run the vectors whose first k threads counted x
\* and whose other threads counted y.
CountVectors(num_threads) ==
    {[i \in 0 .. num_threads - 1 |-> IF i < k THEN x ELSE y] :
        k \in 0 .. num_threads, x \in CountInputs, y \in CountInputs}
    \cup (IF num_threads <= MaxVectorLen
          THEN [0 .. num_threads - 1 -> CountInputs] ELSE {})

\* The threads array main configured, after workers counted x[i] operations,
\* all of them finds of an empty database.
CountedThreads(p, num_threads, x) ==
    LET configured ==
          CASE p = "upscale_mutex" ->
                  configure_threads_mutex(num_threads, 3, 6)
            [] p = "upscale_fairness_test" ->
                  configure_threads_for_hierarchy(num_threads, HIERARCHY_FLAT,
                                                  3, 6)
            [] OTHER -> configure_threads_for_cgroups(num_threads, 3, 6)
    IN  [i \in 0 .. num_threads - 1 |->
            [configured[i] EXCEPT !.total_operations = x[i],
                                  !.find_count = x[i],
                                  !.lock_acquisitions = x[i]]]

\* main of either harness as its join loop ends, the workers having counted
\* the operations of some vector.  The figures of the report read only
\* total_operations of threads[0 .. num_threads-1].
ReportInit ==
    /\ \E p \in Progs, num_threads \in 1 .. MAX_THREADS :
          /\ Arguments([prog |-> p, num_threads |-> num_threads,
                        duration |-> MaxDuration, ratios |-> <<3, 6>>,
                        selector |-> NoArg])
          /\ hierarchy = CASE p = "upscale_mutex" -> EmptyArray
                           [] p = "upscale_fairness_test" ->
                                 init_hierarchy(num_threads, HIERARCHY_FLAT)
                           [] OTHER -> init_cgroups_hierarchy(num_threads)
          /\ cgroup_thread_count =
                IF p = "upscale_fairness_cgroups"
                THEN count_cgroup_threads(num_threads)
                ELSE [c \in 0 .. num_cgroups - 1 |-> 0]
          /\ \E x \in CountVectors(num_threads) :
                threads = CountedThreads(p, num_threads, x)
          /\ created = num_threads
          /\ joined = num_threads
          /\ wpc = [t \in WorkerIds |->
                       IF t < num_threads THEN "finished" ELSE "idle"]
    /\ mainpc = "cleanup"
    /\ exit_status = Running
    /\ current_lock_type = LOCK_MUTEX
    /\ hierarchy_type = HIERARCHY_FLAT
    /\ lock_state = "ready"
    /\ locks = [l \in {"global_mutex", "global_spinlock", "global_rwlock",
                       "global_adaptive_mutex", "global_fairlock"} |-> NoThread]
    /\ store_open = TRUE
    /\ store = {}
    /\ create_failed = FALSE
    /\ slept = MaxDuration
    /\ global_stop = 1
    /\ next_key_id = 1
    /\ last_thread_id = 0 - 1
    /\ last_hierarchy = 4
    /\ consecutive_same_thread = 0
    /\ consecutive_same_hierarchy = 0
    /\ hierarchy_switches = 0
    /\ local = [t \in WorkerIds |->
                   [op_rand |-> 0, op_type |-> NoOp,
                    operations_since_throttle |-> 0, st |-> NoCall,
                    printed |-> "none", operation_time |-> 0,
                    setup_ret |-> "none", rt_ret |-> "none",
                    usleep |-> 0, throttle_usleep |-> 0,
                    slice_end |-> 0, current_time |-> 0, key_id |-> 0]]
    /\ registered = [t \in WorkerIds |-> <<>>]
    /\ handed_out = <<>>
    /\ releases = [t \in WorkerIds |-> 0]
    /\ report = NoReport
    /\ acquired = <<>>
    /\ ops_at_stop = [t \in WorkerIds |-> 0]

\* The report and the cleanup of main.
ReportNext == Cleanup

ReportSpec == ReportInit /\ [][ReportNext]_vars

\* ----------------------------------------------------- pause inputs
\* total_operations of the worker that is about to release the lock.
OperationCounts == {1, 49, 50, 99, 100, 150, 200, 499, 500, 1000}

\* A run of the cgroup harness in its measured phase: main sleeps, every
\* worker has registered and stands at its loop test after one operation,
\* but for one that holds the lock and has just counted an operation.
PauseInit ==
    /\ \E num_threads \in 1 .. MAX_THREADS :
          /\ Arguments([prog |-> "upscale_fairness_cgroups",
                        num_threads |-> num_threads, duration |-> MaxDuration,
                        ratios |-> <<3, 6>>, selector |-> NoArg])
          /\ hierarchy = init_cgroups_hierarchy(num_threads)
          /\ cgroup_thread_count = count_cgroup_threads(num_threads)
          /\ created = num_threads
          /\ \E t \in 0 .. num_threads - 1, k \in OperationCounts :
                /\ threads =
                      [i \in 0 .. num_threads - 1 |->
                          [configure_threads_for_cgroups(num_threads, 3, 6)[i]
                             EXCEPT !.total_operations = IF i = t THEN k ELSE 1,
                                    !.find_count = IF i = t THEN k ELSE 1,
                                    !.lock_acquisitions =
                                        IF i = t THEN k ELSE 1]]
                /\ wpc = [i \in 0 .. MAX_THREADS - 1 |->
                             IF i = t THEN "release"
                             ELSE IF i < num_threads THEN "top" ELSE "idle"]
                /\ locks = [l \in {"global_mutex", "global_spinlock",
                                   "global_rwlock", "global_adaptive_mutex",
                                   "global_fairlock"} |->
                               IF l = "global_fairlock" THEN t ELSE NoThread]
                /\ releases = [i \in 0 .. MAX_THREADS - 1 |->
                                  IF i = t THEN k - 1
                                  ELSE IF i < num_threads THEN 1 ELSE 0]
          /\ registered =
                [i \in 0 .. MAX_THREADS - 1 |->
                    IF i < num_threads
                    THEN <<[weight |-> thread_init_weight(i),
                            node |-> threads[i].parent_node]>>
                    ELSE <<>>]
    /\ mainpc = "sleep"
    /\ exit_status = Running
    /\ current_lock_type = LOCK_MUTEX
    /\ hierarchy_type = HIERARCHY_FLAT
    /\ lock_state = "ready"
    /\ store_open = TRUE
    /\ store = {}
    /\ create_failed = FALSE
    /\ joined = 0
    /\ slept = 0
    /\ global_stop = 0
    /\ next_key_id = 1
    /\ last_thread_id = 0 - 1
    /\ last_hierarchy = 4
    /\ consecutive_same_thread = 0
    /\ consecutive_same_hierarchy = 0
    /\ hierarchy_switches = 0
    /\ local = [i \in 0 .. MAX_THREADS - 1 |->
                   [op_rand |-> 3, op_type |-> OP_FIND,
                    operations_since_throttle |-> 0, st |-> NoCall,
                    printed |-> "no_keys", operation_time |-> 0,
                    setup_ret |-> "none", rt_ret |-> "none",
                    usleep |-> 0, throttle_usleep |-> 0,
                    slice_end |-> 0, current_time |-> 0, key_id |-> 0]]
    /\ handed_out = <<>>
    /\ report = NoReport
    /\ acquired = <<>>
    /\ ops_at_stop = [i \in 0 .. MAX_THREADS - 1 |-> 0]

\* The release of the lock and what follows it in the loop body.
PauseNext == \E t \in 0 .. MAX_THREADS - 1 : ReleaseLockFair(t)

PauseSpec == PauseInit /\ [][PauseNext]_vars

\* -------------------------------------------------- throttle inputs
\* A run of the cgroup harness in its measured phase: every worker has
\* registered and stands at its loop test, holding no lock; worker t has
\* made k passes since it last throttled (k = 0 for a class without quota,
\* whose counter is never incremented).
ThrottleInit ==
    /\ \E num_threads \in 1 .. MAX_THREADS :
          /\ Arguments([prog |-> "upscale_fairness_cgroups",
                        num_threads |-> num_threads, duration |-> MaxDuration,
                        ratios |-> <<3, 6>>, selector |-> NoArg])
          /\ hierarchy = init_cgroups_hierarchy(num_threads)
          /\ cgroup_thread_count = count_cgroup_threads(num_threads)
          /\ created = num_threads
          /\ \E t \in 0 .. num_threads - 1 :
             \E k \in 0 .. (IF cgroups[cgroup_idx_of(t)].throttle_quota > 0
                            THEN 100 - cgroups[cgroup_idx_of(t)].throttle_quota
                            ELSE 0) :
                /\ threads =
                      [i \in 0 .. num_threads - 1 |->
                          [configure_threads_for_cgroups(num_threads, 3, 6)[i]
                             EXCEPT !.total_operations = IF i = t THEN k ELSE 0,
                                    !.find_count = IF i = t THEN k ELSE 0,
                                    !.lock_acquisitions =
                                        IF i = t THEN k ELSE 0]]
                /\ local = [i \in 0 .. MAX_THREADS - 1 |->
                               [op_rand |-> 0, op_type |-> NoOp,
                                operations_since_throttle |->
                                    IF i = t THEN k ELSE 0,
                                st |-> NoCall, printed |-> "none",
                                operation_time |-> 0, setup_ret |-> "none",
                                rt_ret |-> "none", usleep |-> 0,
                                throttle_usleep |-> 0, slice_end |-> 0,
                                current_time |-> 0, key_id |-> 0]]
                /\ releases = [i \in 0 .. MAX_THREADS - 1 |->
                                  IF i = t THEN k ELSE 0]
          /\ wpc = [i \in 0 .. MAX_THREADS - 1 |->
                       IF i < num_threads THEN "top" ELSE "idle"]
          /\ registered =
                [i \in 0 .. MAX_THREADS - 1 |->
                    IF i < num_threads
                    THEN <<[weight |-> thread_init_weight(i),
                            node |-> threads[i].parent_node]>>
                    ELSE <<>>]
    /\ mainpc = "sleep"
    /\ exit_status = Running
    /\ current_lock_type = LOCK_MUTEX
    /\ hierarchy_type = HIERARCHY_FLAT
    /\ lock_state = "ready"
    /\ locks = [l \in {"global_mutex", "global_spinlock", "global_rwlock",
                       "global_adaptive_mutex", "global_fairlock"} |-> NoThread]
    /\ store_open = TRUE
    /\ store = {}
    /\ create_failed = FALSE
    /\ joined = 0
    /\ slept = 0
    /\ global_stop = 0
    /\ next_key_id = 1
    /\ last_thread_id = 0 - 1
    /\ last_hierarchy = 4
    /\ consecutive_same_thread = 0
    /\ consecutive_same_hierarchy = 0
    /\ hierarchy_switches = 0
    /\ handed_out = <<>>
    /\ report = NoReport
    /\ acquired = <<>>
    /\ ops_at_stop = [i \in 0 .. MAX_THREADS - 1 |-> 0]

\* The next pass of the loop by one of the workers: its loop test and its
\* throttle block (one pass is explored from every input).
ThrottleNext ==
    \E t \in DOMAIN threads :
        /\ \A u \in DOMAIN threads : wpc[u] = "top"
        /\ LoopPass(t)

ThrottleSpec == ThrottleInit /\ [][ThrottleNext]_vars

\* ---------------------------------------------------- lookup inputs
\* The three workers of the lookup inputs.
KeyWorkers == 0 .. 2

\* A run of any harness in its measured phase: main sleeps, the three workers
\* stand at their loop test holding no lock; worker 2 has inserted n keys,
\* the other two have not made a pass yet.
KeysInit ==
    /\ \E p \in Progs, n \in 0 .. MaxKeys :
          /\ Arguments([prog |-> p, num_threads |-> 3,
                        duration |-> MaxDuration, ratios |-> <<3, 6>>,
                        selector |-> NoArg])
          /\ hierarchy = CASE p = "upscale_mutex" -> EmptyArray
                           [] p = "upscale_fairness_test" ->
                                 init_hierarchy(3, HIERARCHY_FLAT)
                           [] OTHER -> init_cgroups_hierarchy(3)
          /\ cgroup_thread_count =
                IF p = "upscale_fairness_cgroups"
                THEN count_cgroup_threads(3)
                ELSE [c \in 0 .. num_cgroups - 1 |-> 0]
          /\ LET configured ==
                    CASE p = "upscale_mutex" ->
                            configure_threads_mutex(3, 3, 6)
                      [] p = "upscale_fairness_test" ->
                            configure_threads_for_hierarchy(3, HIERARCHY_FLAT,
                                                            3, 6)
                      [] OTHER -> configure_threads_for_cgroups(3, 3, 6)
             IN  threads =
                    [configured EXCEPT
                        ![2].insert_count = n,
                        ![2].total_operations = n,
                        ![2].lock_acquisitions = n,
                        ![2].max_consecutive_acquisitions =
                            IF p = "upscale_mutex" THEN n ELSE 0]
          /\ registered =
                [i \in KeyWorkers |->
                    IF p = "upscale_mutex" THEN <<>>
                    ELSE <<[weight |-> thread_init_weight(i),
                            node |-> threads[i].parent_node]>>]
          /\ next_key_id = n + 1
          /\ handed_out = [k \in 1 .. n |-> k]
          /\ store = {<<2, k>> : k \in 1 .. n}
          /\ releases = [i \in KeyWorkers |-> IF i = 2 THEN n ELSE 0]
          /\ acquired = IF p = "upscale_mutex" THEN [k \in 1 .. n |-> 2]
                        ELSE <<>>
          /\ last_thread_id =
                IF p = "upscale_mutex" /\ n > 0 THEN 2 ELSE 0 - 1
          /\ last_hierarchy =
                IF p = "upscale_mutex" /\ n > 0
                THEN threads[2].hierarchy_level ELSE 4
          /\ consecutive_same_thread = IF p = "upscale_mutex" THEN n ELSE 0
          /\ local = [i \in KeyWorkers |->
                         [op_rand |-> 0,
                          op_type |-> IF i = 2 /\ n > 0 THEN OP_INSERT ELSE NoOp,
                          operations_since_throttle |-> 0,
                          st |-> IF i = 2 /\ n > 0 THEN "UPS_SUCCESS"
                                 ELSE NoCall,
                          printed |-> "none",
                          operation_time |->
                              IF i = 2 /\ n > 0 THEN ElapsedCycles ELSE 0,
                          setup_ret |-> "none", rt_ret |-> "none",
                          usleep |-> 0, throttle_usleep |-> 0,
                          slice_end |-> 0, current_time |-> 0, key_id |-> 0]]
    /\ created = 3
    /\ wpc = [i \in KeyWorkers |-> "top"]
    /\ mainpc = "sleep"
    /\ exit_status = Running
    /\ current_lock_type = LOCK_MUTEX
    /\ hierarchy_type = HIERARCHY_FLAT
    /\ lock_state = "ready"
    /\ locks = [l \in {"global_mutex", "global_spinlock", "global_rwlock",
                       "global_adaptive_mutex", "global_fairlock"} |-> NoThread]
    /\ store_open = TRUE
    /\ create_failed = FALSE
    /\ joined = 0
    /\ slept = 0
    /\ global_stop = 0
    /\ consecutive_same_hierarchy = 0
    /\ hierarchy_switches = 0
    /\ report = NoReport
    /\ ops_at_stop = [i \in KeyWorkers |-> 0]

\* One pass of the loop by each of the workers 0 and 1, interleaved in every
\* way the lock allows.
KeysNext ==
    \E t \in 0 .. 1 :
        \/ threads[t].lock_acquisitions = 0 /\ LoopPass(t)
        \/ AcquireLockMutex(t)
        \/ TrackAcquisition(t)
        \/ AcquireLockFair(t)
        \/ PerformInsert(t)
        \/ PerformFind(t)
        \/ PerformUpdate(t)
        \/ ReleaseLockMutex(t)
        \/ ReleaseLockFair(t)

KeysSpec == KeysInit /\ [][KeysNext]_vars

FairSpec ==
    /\ Init
    /\ [][Next]_vars
    /\ WF_vars(MainStep)
    /\ \A t \in WorkerIds :
          /\ WF_vars(WorkerStep(t))
          /\ SF_vars(AcquireLockMutex(t))
          /\ SF_vars(AcquireLockFair(t))

\* ================================================================ claims
Launched == {t \in WorkerIds : wpc[t] # "idle"}

OpsDone(t) ==
    threads[t].insert_count + threads[t].find_count + threads[t].update_count

\* C1: in upscale_mutex, whatever the lock type, at most one worker is
\* between the return of acquire_lock and its call of release_lock.
C1_MutualExclusion ==
    prog = "upscale_mutex" =>
        Cardinality({t \in WorkerIds : wpc[t] \in {"op", "release"}}) <= 1

\* One worker is inside the section while another waits in acquire_lock.
C1_Witness ==
    /\ prog = "upscale_mutex"
    /\ current_lock_type = LOCK_RWLOCK
    /\ \E t, u \in WorkerIds :
          /\ t # u
          /\ wpc[t] = "op"
          /\ wpc[u] = "acquire"

\* C2: in every harness each loop pass acquires the lock once, performs one
\* store operation while holding it and releases it once; a worker that
\* performs a store operation or releases the lock holds the lock.
C2_LoopDiscipline ==
    \A t \in DOMAIN threads :
        LET acq == threads[t].lock_acquisitions
            ops == OpsDone(t)
            rel == releases[t]
        IN  /\ threads[t].total_operations = ops
            /\ wpc[t] \in {"idle", "setup", "top", "acquire", "finished"} =>
                  /\ acq = ops /\ rel = ops
                  /\ \A l \in DOMAIN locks : locks[l] # t
            /\ wpc[t] = "track" => acq = ops /\ rel = ops /\ Holds(t)
            /\ wpc[t] = "op" => acq = ops + 1 /\ rel = ops /\ Holds(t)
            /\ wpc[t] = "release" =>
                  /\ acq = ops /\ rel = ops - 1
                  /\ Holds(t)
                  /\ LockReleased # "none" /\ locks[LockReleased] = t

\* A worker has gone through the loop twice.
C2_Witness ==
    \E t \in DOMAIN threads :
        /\ releases[t] = 2
        /\ threads[t].lock_acquisitions = 2
        /\ wpc[t] = "top"

MainPastSleep == mainpc \in {"join", "cleanup", "done", "crashed"}

\* C3 as stated: the stop flag is true only once the coordinating thread has
\* slept for the configured duration.
C3_StopOnlyAfterSleep ==
    global_stop # 0 => MainPastSleep /\ slept >= arg_duration

\* C3 as amended: the stop flag rises when the coordinating thread has slept
\* for the configured duration, or at once when a pthread_create call
\* fails; once true it is never set back to false.
C3_StopFlagRisesOnce ==
    [][/\ (global_stop = 0 /\ global_stop' # 0) =>
              \/ mainpc = "sleep" /\ mainpc' = "join" /\ slept >= arg_duration
              \/ mainpc = "create" /\ ~create_failed /\ create_failed'
       /\ global_stop # 0 => global_stop' # 0]_vars

\* The flag was raised after a full sleep of a positive duration, with every
\* worker launched.
C3_Witness ==
    /\ global_stop # 0
    /\ ~create_failed
    /\ arg_duration > 0
    /\ slept = arg_duration
    /\ created = MaxWorkers

\* C4: once the stop flag is set, every launched worker leaves its loop and
\* returns, and the join loop of the coordinating thread completes.
C4_JoinCompletes ==
    (global_stop # 0) ~>
        /\ \A t \in Launched : wpc[t] = "finished"
        /\ mainpc \in {"cleanup", "done"}

\* C5: a worker tests the stop flag only at the top of its loop; once the
\* flag is true no worker starts a new pass, total_operations of a worker
\* grows by at most 1 after the flag is set, and a worker that has returned
\* has released the lock after its last store operation.
C5_StopPolledAtLoopTop ==
    /\ [](\A t \in DOMAIN threads :
            /\ global_stop # 0 =>
                  threads[t].total_operations - ops_at_stop[t] <= 1
            /\ wpc[t] = "finished" =>
                  /\ \A l \in DOMAIN locks : locks[l] # t
                  /\ threads[t].lock_acquisitions = OpsDone(t)
                  /\ releases[t] = OpsDone(t))
    /\ []((Launched # {} /\ \A t \in Launched : wpc[t] = "finished") =>
              \A l \in DOMAIN locks : locks[l] = NoThread)
    /\ [][\A t \in WorkerIds :
            /\ (wpc[t] # "finished" /\ wpc'[t] = "finished") =>
                  wpc[t] \in {"top", "setup"}
            /\ (global_stop # 0 /\ wpc[t] = "top") => wpc'[t] # "acquire"]_vars

\* A worker completed the pass it was in when the flag rose, and returned.
C5_Witness ==
    \E t \in DOMAIN threads :
        /\ global_stop # 0
        /\ wpc[t] = "finished"
        /\ threads[t].total_operations = ops_at_stop[t] + 1

\* C6: the key ids handed out are 1, 2, 3, ... without gap or repetition,
\* and next_key_id is 1 plus the number of ids handed out.
C6_KeyIdsConsecutive ==
    /\ \A i \in 1 .. Len(handed_out) : handed_out[i] = i
    /\ next_key_id = 1 + Len(handed_out)

\* Two different workers have each taken a key id.
C6_Witness ==
    /\ Len(handed_out) = 2
    /\ \E t, u \in DOMAIN threads :
          /\ t # u
          /\ threads[t].insert_count = 1
          /\ threads[u].insert_count = 1

InvalidArguments ==
    \/ arg_num_threads < 1
    \/ arg_num_threads > MAX_THREADS
    \/ arg_insert_ratio + arg_find_ratio > ONE

\* C7: a thread count outside [1, 16] or insertRatio + findRatio > 1.0 makes
\* main return non-zero before the hierarchy, the lock, the store or any
\* worker is created; no store operation is performed.
C7_InvalidArgumentsRejected ==
    InvalidArguments =>
        /\ mainpc \in {"validate", "done"}
        /\ mainpc = "done" => exit_status # 0 /\ exit_status # Running
        /\ DOMAIN hierarchy = {}
        /\ lock_state = "static"
        /\ ~store_open
        /\ store = {}
        /\ next_key_id = 1
        /\ created = 0
        /\ Launched = {}

\* insertRatio = 0.6 and findRatio = 0.5 with a valid thread count: rejected.
C7_Witness ==
    /\ arg_insert_ratio = 6
    /\ arg_find_ratio = 5
    /\ arg_num_threads = MaxWorkers
    /\ mainpc = "done"
    /\ exit_status = 1

\* C8: in every run that reaches the thread launch, insertRatio, findRatio
\* and updateRatio each lie in [0, 1] and add up to 1.
C8_RatiosInUnitInterval ==
    mainpc \in {"create", "sleep", "join", "cleanup"} =>
        \A t \in DOMAIN threads :
            /\ threads[t].insert_ratio \in 0 .. ONE
            /\ threads[t].find_ratio \in 0 .. ONE
            /\ threads[t].update_ratio \in 0 .. ONE
            /\ threads[t].insert_ratio + threads[t].find_ratio
                  + threads[t].update_ratio = ONE

UnknownLockType ==
    /\ prog = "upscale_mutex"
    /\ arg_selector # NoArg
    /\ arg_selector[1] \notin 0 .. 3
    /\ ~InvalidArguments

\* C9 as stated: with a lock-type selector outside 0..3 the run does not
\* fail and the plain mutex is used.
C9_UnknownLockTypeFallsBack ==
    (UnknownLockType /\ mainpc \notin {"validate", "init_lock"}) =>
        /\ current_lock_type = LOCK_MUTEX
        /\ exit_status \in {Running, 0}

\* C9 as amended: with a lock-type selector outside 0..3 init_lock fails
\* and main returns 1 before the store or any worker is created.
C9_UnknownLockTypeRefused ==
    UnknownLockType =>
        /\ mainpc \in {"validate", "init_lock", "done"}
        /\ mainpc = "done" => exit_status = 1
        /\ ~store_open
        /\ created = 0
        /\ Launched = {}

\* main has returned 1 for lock type 4.
C9_Witness ==
    /\ UnknownLockType
    /\ arg_selector = <<4>>
    /\ current_lock_type = 4
    /\ mainpc = "done"
    /\ exit_status = 1

UnknownTopology ==
    /\ prog = "upscale_fairness_test"
    /\ arg_selector # NoArg
    /\ arg_selector[1] \notin 0 .. 4
    /\ ~InvalidArguments

\* C10: in upscale_fairness_test a topology selector outside 0..4 gives the
\* Flat topology: root 0 and one child of the root per thread, and the
\* threads configured as for Flat.
C10_UnknownTopologyIsFlat ==
    UnknownTopology =>
        /\ mainpc # "validate" => hierarchy_type = HIERARCHY_FLAT
        /\ DOMAIN hierarchy # {} =>
              /\ DOMAIN hierarchy = 0 .. arg_num_threads
              /\ \A n \in DOMAIN hierarchy :
                    hierarchy[n].id = n /\ hierarchy[n].parent = 0
        /\ DOMAIN threads # {} =>
              /\ DOMAIN threads = 0 .. arg_num_threads - 1
              /\ \A i \in DOMAIN threads :
                    /\ threads[i].priority = (i % 20) - 10
                    /\ threads[i].weight = 1024 \div (2 ^ (i % 4))
                    /\ threads[i].parent_node = i + 1

\* A run with topology selector 5 has gone through to the end.
C10_Witness ==
    /\ UnknownTopology
    /\ arg_selector = <<5>>
    /\ mainpc = "done"
    /\ exit_status = 0
    /\ \E t \in DOMAIN threads : threads[t].total_operations > 0

InPass(t) == wpc[t] \in {"acquire", "track", "op"}

\* C11: with r the value drawn for a pass, the worker selects Insert iff
\* r < insertRatio, Find iff insertRatio <= r < insertRatio + findRatio, and
\* Update otherwise; one operation is selected per pass.
C11_OperationSelection ==
    \A t \in DOMAIN threads :
        InPass(t) =>
            LET r == local[t].op_rand
                ins == threads[t].insert_ratio
                fnd == threads[t].find_ratio
            IN  /\ local[t].op_type \in {OP_INSERT, OP_FIND, OP_UPDATE}
                /\ local[t].op_type = OP_INSERT <=> r < ins
                /\ local[t].op_type = OP_FIND <=> (ins <= r /\ r < ins + fnd)
                /\ local[t].op_type = OP_UPDATE <=> (r >= ins /\ r >= ins + fnd)

\* Draws on both thresholds: r = insertRatio gives Find, r = insertRatio +
\* findRatio gives Update.
C11_Witness ==
    \E t, u \in DOMAIN threads :
        /\ InPass(t) /\ InPass(u)
        /\ local[t].op_rand = threads[t].insert_ratio
        /\ local[t].op_type = OP_FIND
        /\ local[u].op_rand = threads[u].insert_ratio + threads[u].find_ratio
        /\ local[u].op_type = OP_UPDATE

\* C12: the value drawn for operation selection is below 1, and in a pure
\* find workload (insertRatio = 0, findRatio = 1) every operation a worker
\* performs is a Find: insert_count and update_count stay 0.
C12_PureFindWorkload ==
    \A t \in DOMAIN threads :
        /\ InPass(t) => local[t].op_rand < ONE
        /\ (threads[t].insert_ratio = 0 /\ threads[t].find_ratio = ONE) =>
              /\ threads[t].insert_count = 0
              /\ threads[t].update_count = 0
              /\ threads[t].find_count = threads[t].total_operations

\* Worker t completes the store operation of its pass in this step.
Performs(t) == wpc[t] = "op" /\ wpc'[t] = "release"

\* C13: while no key has been inserted (next_key_id <= 1), a find or an
\* update returns a duration of 0 without calling the store and without
\* reporting an error, and the worker counts one completed operation.
C13_EmptyKeyspaceNoOp ==
    [][\A t \in DOMAIN threads :
          (/\ Performs(t)
           /\ local[t].op_type \in {OP_FIND, OP_UPDATE}
           /\ next_key_id <= 1) =>
              /\ local'[t].operation_time = 0
              /\ local'[t].st = NoCall
              /\ local'[t].printed = "none"
              /\ store' = store
              /\ threads'[t].total_operations =
                    threads[t].total_operations + 1]_vars

\* C14: whatever status the store returns for an insert, find or update, the
\* worker counts the operation once (one per-operation counter and
\* total_operations grow by 1), then releases the lock and goes back to the
\* top of its loop; the operation is not attempted again.
C14_StoreStatusNonFatal ==
    [][\A t \in DOMAIN threads :
          /\ Performs(t) =>
                /\ threads'[t].total_operations =
                      threads[t].total_operations + 1
                /\ threads'[t].insert_count + threads'[t].find_count
                      + threads'[t].update_count =
                      threads[t].insert_count + threads[t].find_count
                      + threads[t].update_count + 1
          /\ wpc[t] = "op" => wpc'[t] \in {"op", "release"}
          /\ wpc[t] = "release" => wpc'[t] \in {"release", "top"}
          /\ (wpc[t] = "release" /\ wpc'[t] = "top") =>
                /\ \A l \in DOMAIN locks : locks'[l] # t
                /\ threads'[t].total_operations = threads[t].total_operations
                /\ store' = store]_vars

\* A worker's insert failed, the worker went on with a second pass whose find
\* or update missed, and it is back at the top of its loop with the lock free.
C14_Witness ==
    \E t \in DOMAIN threads :
        /\ wpc[t] = "top"
        /\ threads[t].total_operations = 2
        /\ threads[t].insert_count = 1
        /\ next_key_id = 2
        /\ store = {}
        /\ local[t].st = "UPS_KEY_NOT_FOUND"
        /\ \A l \in DOMAIN locks : locks[l] = NoThread

HierarchyBuilt == DOMAIN hierarchy # {}

\* Following parent links from node i reaches node 0 within the given number
\* of steps.
RECURSIVE ReachesRoot(_, _)
ReachesRoot(i, steps) ==
    IF i = 0 THEN TRUE
    ELSE IF steps = 0 \/ i \notin DOMAIN hierarchy THEN FALSE
    ELSE ReachesRoot(hierarchy[i].parent, steps - 1)

\* C15: in every hierarchy built (Flat, Balanced, Skewed, Deep, Grouped, the
\* cgroup hierarchy; 1 to 16 threads) node 0 is its own parent, every other
\* node i has a parent that is a node of the array with parent(i) < i, and
\* following parent links from any node reaches the root.
C15_HierarchyIsRootedTree ==
    HierarchyBuilt =>
        /\ hierarchy[0].parent = 0
        /\ \A i \in DOMAIN hierarchy :
              /\ hierarchy[i].id = i
              /\ i # 0 => /\ hierarchy[i].parent \in DOMAIN hierarchy
                          /\ hierarchy[i].parent < i
              /\ ReachesRoot(i, Cardinality(DOMAIN hierarchy))

\* The Deep chain and the cgroup hierarchy, each for 16 threads, are built.
C15_Witness ==
    /\ HierarchyBuilt
    /\ arg_num_threads = MAX_THREADS
    /\ \/ /\ hierarchy_type = HIERARCHY_DEEP
          /\ hierarchy[MAX_THREADS].parent = MAX_THREADS - 1
       \/ /\ prog = "upscale_fairness_cgroups"
          /\ Cardinality(DOMAIN hierarchy) = MAX_THREADS + num_cgroups

\* C16: under the Balanced topology the tree has threadCount + 1 nodes and
\* every node i >= 1 has parent floor((i - 1) / 2); with 7 threads node 3's
\* parent is node 1 and node 6's parent is node 2.
C16_BalancedParents ==
    (prog = "upscale_fairness_test" /\ hierarchy_type = HIERARCHY_BALANCED
     /\ HierarchyBuilt) =>
        /\ DOMAIN hierarchy = 0 .. arg_num_threads
        /\ \A i \in 1 .. arg_num_threads :
              /\ 2 * hierarchy[i].parent <= i - 1
              /\ i - 1 < 2 * hierarchy[i].parent + 2
        /\ arg_num_threads = 7 =>
              hierarchy[3].parent = 1 /\ hierarchy[6].parent = 2

\* The Balanced tree for 7 threads is built.
C16_Witness ==
    /\ prog = "upscale_fairness_test"
    /\ hierarchy_type = HIERARCHY_BALANCED
    /\ arg_num_threads = 7
    /\ Cardinality(DOMAIN hierarchy) = 8
    /\ hierarchy[7].parent = 3

ThreadsConfigured == DOMAIN threads # {}

\* Node n has no child node.
IsLeaf(n) == \A m \in DOMAIN hierarchy : m # n => hierarchy[m].parent # n

\* Distinct threads are bound to distinct nodes of the node array.
BoundOneToOne ==
    /\ \A i \in DOMAIN threads : threads[i].parent_node \in DOMAIN hierarchy
    /\ \A i, j \in DOMAIN threads :
          i # j => threads[i].parent_node # threads[j].parent_node

\* C17: threads are bound one-to-one to the leaves of the tree: distinct
\* threads to distinct nodes of the array, every bound node has no child, and
\* every leaf is bound to some thread.
C17_ThreadsBoundToLeaves ==
    (HierarchyBuilt /\ ThreadsConfigured) =>
        /\ BoundOneToOne
        /\ \A i \in DOMAIN threads : IsLeaf(threads[i].parent_node)
        /\ \A n \in DOMAIN hierarchy :
              IsLeaf(n) => \E i \in DOMAIN threads : threads[i].parent_node = n

\* The thread configurations of a run of the same harness with the same
\* topology and num_threads = n.
OtherRun(n) ==
    IF prog = "upscale_fairness_test"
    THEN configure_threads_for_hierarchy(n, hierarchy_type, arg_insert_ratio,
                                         arg_find_ratio)
    ELSE configure_threads_for_cgroups(n, arg_insert_ratio, arg_find_ratio)

\* C18: the weight and the priority given to a thread depend only on the
\* topology and the thread index: a run with another thread count gives the
\* thread of the same index the same weight and the same priority.
C18_BindingIndependentOfCount ==
    ThreadsConfigured =>
        \A n \in 1 .. MAX_THREADS : \A i \in DOMAIN threads :
            i < n => /\ OtherRun(n)[i].weight = threads[i].weight
                     /\ OtherRun(n)[i].priority = threads[i].priority

FairWorkers == IF prog \in FairProgs THEN DOMAIN threads ELSE {}

\* C19 as stated: every worker of the fair-lock harnesses that has run its
\* start-up code has registered with the lock exactly once.
C19_EveryWorkerRegisters ==
    \A t \in FairWorkers :
        wpc[t] \notin {"idle", "setup"} => Len(registered[t]) = 1

\* C19 as amended: a worker registers at most once, with weight and node as
\* computed from its configuration; a worker in its loop, or one that has
\* acquired the lock, has registered before; a worker whose setpriority call
\* failed for a reason other than EPERM or EACCES has returned without
\* registering and never acquires the lock.
C19_RegisteredBeforeAcquire ==
    \A t \in FairWorkers :
        /\ Len(registered[t]) <= 1
        /\ wpc[t] \in {"idle", "setup"} => Len(registered[t]) = 0
        /\ (wpc[t] \in {"top", "acquire", "op", "release"}
            \/ threads[t].lock_acquisitions > 0
            \/ locks["global_fairlock"] = t) => Len(registered[t]) = 1
        /\ Len(registered[t]) = 1 =>
              /\ registered[t][1].node = threads[t].parent_node
              /\ prog = "upscale_fairness_test" =>
                    registered[t][1].weight =
                        threads[t].weight * (20 + threads[t].priority)
              /\ prog = "upscale_fairness_cgroups" =>
                    1024 * registered[t][1].weight =
                        cgroups[threads[t].cgroup_id].weight
                            * threads[t].weight

\* One worker registered and acquired the lock twice; another returned on a
\* failed setpriority call without registering.
C19_Witness ==
    \E t, u \in FairWorkers :
        /\ Len(registered[t]) = 1
        /\ threads[t].lock_acquisitions = 2
        /\ wpc[u] = "finished"
        /\ Len(registered[u]) = 0

Steps(t) == wpc'[t] # wpc[t]

\* C21: the counters of a thread are written only by the worker that owns
\* them (after main has zeroed them, before the launch), and main reads them
\* for the report only once the join loop is over and every created worker
\* has returned; from then on no counter changes.
C21_CountersOwnedByWorker ==
    /\ [][\A t \in DOMAIN threads :
             threads'[t] # threads[t] =>
                 /\ Steps(t)
                 /\ t \in Launched
                 /\ \A u \in WorkerIds \ {t} : ~Steps(u)
                 /\ mainpc' = mainpc]_vars
    /\ [](mainpc \in {"cleanup", "done"} /\ ThreadsConfigured =>
             /\ joined = arg_num_threads
             /\ \A t \in Launched : wpc[t] = "finished")
    /\ [][(mainpc \in {"cleanup", "done"}) => (threads' = threads)]_vars

\* main is about to print the report of a run in which both workers counted
\* operations and one of them counted a dominance event.
C21_Witness ==
    /\ mainpc = "cleanup"
    /\ \A t \in DOMAIN threads : threads[t].total_operations = 1
    /\ \E t \in DOMAIN threads :
          threads[t].dominated_lower_threads + threads[t].starved_by_higher = 1

\* Worker t leaves its start-up code.
LeavesSetup(t) == wpc[t] = "setup" /\ Steps(t)

\* C22 (as stated): no failure of a start-up call stops a worker: whatever
\* the calls answered, the worker goes on to the first test of its loop.
C22_SetupFailureNeverStopsWorker ==
    [][\A t \in WorkerIds : LeavesSetup(t) => wpc'[t] = "top"]_vars

\* C22 (amended): a failure of the affinity, scheduling-policy or niceness
\* call of upscale_mutex, a refusal of setpriority for lack of privilege
\* (EPERM, EACCES) and a failure of sched_setscheduler never stop a worker
\* and never change the exit status; only in the hfairlock harnesses does a
\* setpriority failure with another errno make the worker return before its
\* loop, and even then main goes on and returns 0.
C22_ToleratedSetupFailure ==
    /\ [][\A t \in WorkerIds : LeavesSetup(t) =>
             /\ mainpc' = mainpc
             /\ exit_status' = exit_status
             /\ global_stop' = global_stop
             /\ wpc'[t] \in {"top", "finished"}
             /\ local'[t].setup_ret \in {"ok", "failed", "EPERM", "EACCES"}
                    => wpc'[t] = "top"
             /\ wpc'[t] = "finished" =>
                    /\ prog \in FairProgs
                    /\ local'[t].setup_ret = "other"]_vars
    /\ [](mainpc = "done" /\ created = arg_num_threads /\ ThreadsConfigured
             /\ ~create_failed => exit_status = 0)

\* A real-time worker of the cgroup harness was refused both the niceness
\* and the FIFO policy and stands at the first test of its loop.
C22_Witness ==
    \E t \in Launched :
        /\ wpc[t] = "top"
        /\ local[t].setup_ret = "EPERM"
        /\ local[t].rt_ret = "failed"

\* main has printed its report.
ReportPrinted == mainpc = "done" /\ report # NoReport

\* total_operations of the threads of the run.
Counts == [i \in DOMAIN threads |-> threads[i].total_operations]

TotalCount == total_ops_upto(threads, arg_num_threads)

AllCountsEqual == \A i, j \in DOMAIN Counts : Counts[i] = Counts[j]

OneThreadDidAll ==
    \E i \in DOMAIN Counts :
        Counts[i] > 0 /\ \A j \in DOMAIN Counts \ {i} : Counts[j] = 0

\* The fraction r is a number (neither NaN nor an infinity).
IsNumber(r) == r.den > 0

\* The numbers a and b are equal.
RatioEq(a, b) == IsNumber(a) /\ IsNumber(b) /\ a.num * b.den = b.num * a.den

\* The Jain figure is a number of (0,1], 1 for equal counts and 1/n when one
\* thread did all the work.
JainFigureSound ==
    /\ IsNumber(report.jain)
    /\ 0 < report.jain.num
    /\ report.jain.num <= report.jain.den
    /\ AllCountsEqual => report.jain.num = report.jain.den
    /\ OneThreadDidAll => report.jain.num * arg_num_threads = report.jain.den

\* C23: for every vector of operation counts of 1..16 threads, the Jain's
\* Fairness Index upscale_mutex reports lies in (0,1], is exactly 1 when all
\* counts are equal and 1/n when one thread did all the work.
C23_JainIndexInUnitInterval ==
    ReportPrinted /\ prog = "upscale_mutex" => JainFigureSound

\* The Gini figure is a number of [0,1), 0 exactly for equal counts, 0 for
\* [10,10,10,10] and 3/4 for [0,0,0,40].
GiniFigureSound ==
    /\ IsNumber(report.gini)
    /\ 0 <= report.gini.num
    /\ report.gini.num < report.gini.den
    /\ report.gini.num = 0 <=> AllCountsEqual
    /\ Counts = [i \in 0 .. 3 |-> 10] => report.gini.num = 0
    /\ Counts = [i \in 0 .. 3 |-> IF i = 3 THEN 40 ELSE 0]
          => 4 * report.gini.num = 3 * report.gini.den

\* C24: for every vector of operation counts, the Gini coefficient
\* upscale_mutex reports is 0 if and only if all counts are equal and lies in
\* [0,1); it is 0 for [10,10,10,10] and 0.75 for [0,0,0,40].
C24_GiniCoefficient ==
    ReportPrinted /\ prog = "upscale_mutex" => GiniFigureSound

\* The largest and the smallest total_operations of the run.
MaxCount ==
    CHOOSE m \in {Counts[i] : i \in DOMAIN Counts} :
        \A i \in DOMAIN Counts : Counts[i] <= m

MinCount ==
    CHOOSE m \in {Counts[i] : i \in DOMAIN Counts} :
        \A i \in DOMAIN Counts : m <= Counts[i]

\* C25: the throughput spread every harness reports is 100 * (max - min) /
\* avg over the per-thread total operation counts, with min <= avg <= max,
\* and is 0 exactly when all counts are equal; max = 120, min = 80 and
\* avg = 100 print as 40.0%.  With no operation at all, upscale_mutex prints
\* 0 and the fair-lock harnesses print that the figure is not available.
C25_ThroughputSpread ==
    ReportPrinted =>
        IF TotalCount > 0
        THEN /\ IsNumber(report.spread)
             /\ ~report.spread_na
             /\ report.spread.num * TotalCount =
                   100 * (MaxCount - MinCount) * arg_num_threads
                       * report.spread.den
             /\ MinCount * arg_num_threads <= TotalCount
             /\ TotalCount <= MaxCount * arg_num_threads
             /\ report.spread.num = 0 <=> AllCountsEqual
             /\ MaxCount = 120 /\ MinCount = 80
                   /\ TotalCount = 100 * arg_num_threads
                   => tenths(report.spread) = 400
        ELSE IF prog = "upscale_mutex"
             THEN RatioEq(report.spread, Ratio(0, 1))
             ELSE report.spread_na

\* A three-thread run with counts 120, 80 and 100 has been reported with a
\* spread of 40.0%.
C25_Witness ==
    /\ ReportPrinted
    /\ Counts = [i \in 0 .. 2 |-> IF i = 0 THEN 120 ELSE IF i = 1 THEN 80
                                  ELSE 100]
    /\ tenths(report.spread) = 400

\* C26 (as stated): whenever the total is not zero, the Fairness Index of the
\* fair-lock harnesses equals Jain's index of the same counts as
\* upscale_mutex computes it.
C26_FairnessIndexIsJain ==
    ReportPrinted /\ prog \in FairProgs /\ TotalCount > 0 =>
        RatioEq(report.fairness_index,
                overall_fairness_index(threads, arg_num_threads))

\* floor(threadCount / 2)
Mid == arg_num_threads \div 2

\* C27: under the Skewed topology nodes 1..floor(threadCount/2) form a
\* linear chain (parent(i) = i - 1) and every later node has parent 0; the
\* threads bound to chain nodes are exactly the threads with index below
\* floor(threadCount/2), and those threads get priority -10 + index and the
\* weight 2048 >> index, the others priority 0 and weight 1024.
C27_SkewedChain ==
    (prog = "upscale_fairness_test" /\ hierarchy_type = HIERARCHY_SKEWED
     /\ ThreadsConfigured) =>
        /\ DOMAIN hierarchy = 0 .. arg_num_threads
        /\ \A i \in 1 .. arg_num_threads :
              hierarchy[i].parent = IF i <= Mid THEN i - 1 ELSE 0
        /\ \A t \in DOMAIN threads :
              /\ threads[t].parent_node \in 1 .. Mid <=> t < Mid
              /\ t < Mid =>
                    /\ threads[t].weight * (2 ^ t) <= 2048
                    /\ 2048 < (threads[t].weight + 1) * (2 ^ t)
                    /\ threads[t].priority = t - 10
              /\ t >= Mid =>
                    /\ threads[t].weight = 1024
                    /\ threads[t].priority = 0

\* The Skewed run of 16 threads is configured: node 8 ends the chain, node 9
\* hangs off the root, thread 7 has weight 2048 >> 7 and thread 8 the default.
C27_Witness ==
    /\ prog = "upscale_fairness_test"
    /\ hierarchy_type = HIERARCHY_SKEWED
    /\ arg_num_threads = 16
    /\ ThreadsConfigured
    /\ hierarchy[8].parent = 7
    /\ hierarchy[9].parent = 0
    /\ threads[7].weight = 16
    /\ threads[8].weight = 1024

\* C28: under the Grouped topology the tree has threadCount + 5 nodes: the
\* root, group nodes 1..4 below the root, and for each thread t the node
\* 5 + t below group node (t mod 4) + 1; thread t is bound to node 5 + t and
\* has the priority -10 + 5g and the weight 1024 >> g of its group g = t mod 4.
C28_GroupedTopology ==
    (prog = "upscale_fairness_test" /\ hierarchy_type = HIERARCHY_GROUPED
     /\ ThreadsConfigured) =>
        /\ DOMAIN hierarchy = 0 .. (arg_num_threads + 5 - 1)
        /\ \A g \in 0 .. 4 : hierarchy[g].parent = 0
        /\ \A t \in DOMAIN threads :
              /\ threads[t].parent_node = 5 + t
              /\ hierarchy[5 + t].id = 5 + t
              /\ hierarchy[5 + t].parent = (t % 4) + 1
              /\ threads[t].priority = 5 * (t % 4) - 10
              /\ threads[t].weight * (2 ^ (t % 4)) = 1024

\* The Grouped run of 16 threads is configured: 21 nodes, thread 6 on node 11
\* below group node 3.
C28_Witness ==
    /\ prog = "upscale_fairness_test"
    /\ hierarchy_type = HIERARCHY_GROUPED
    /\ arg_num_threads = 16
    /\ ThreadsConfigured
    /\ Cardinality(DOMAIN hierarchy) = 21
    /\ threads[6].parent_node = 11
    /\ hierarchy[11].parent = 3

RECURSIVE DominanceEvents(_)
\* dominated_lower_threads + starved_by_higher, summed over threads 0 .. i-1.
DominanceEvents(i) ==
    IF i = 0 THEN 0
    ELSE DominanceEvents(i - 1) + threads[i - 1].dominated_lower_threads
                                + threads[i - 1].starved_by_higher

\* C29: in upscale_mutex the last-holder bookkeeping is read and written only
\* by the worker that holds the lock, one worker at a time; every acquisition
\* records its holder and level, hierarchy_switches grows by one exactly at
\* an acquisition whose holder has another level than the previous holder,
\* and it always equals the sum over the threads of dominated_lower_threads
\* + starved_by_higher.
C29_BookkeepingUnderLock ==
    /\ [](prog = "upscale_mutex" =>
            /\ \A t \in WorkerIds :
                  wpc[t] = "track" =>
                      /\ Holds(t)
                      /\ \A u \in WorkerIds \ {t} :
                            wpc[u] \notin {"track", "op", "release"}
            /\ last_thread_id >= 0 =>
                  last_hierarchy = threads[last_thread_id].hierarchy_level
            /\ ThreadsConfigured =>
                  hierarchy_switches = DominanceEvents(arg_num_threads))
    /\ [][(prog = "upscale_mutex") =>
            /\ trackvars' # trackvars =>
                  \E t \in WorkerIds :
                      wpc[t] = "track" /\ Holds(t) /\ Steps(t)
            /\ \A t \in WorkerIds :
                  wpc[t] = "track" /\ Steps(t) =>
                      /\ last_thread_id' = t
                      /\ last_hierarchy' = threads[t].hierarchy_level
                      /\ hierarchy_switches' = hierarchy_switches +
                            (IF /\ last_thread_id >= 0
                                /\ last_hierarchy # threads[t].hierarchy_level
                             THEN 1 ELSE 0)]_vars

\* An upscale_mutex run is over in which the second acquisition was made by a
\* worker of another level than the first: one switch, one dominance event.
C29_Witness ==
    /\ prog = "upscale_mutex"
    /\ mainpc = "done"
    /\ exit_status = 0
    /\ hierarchy_switches = 1
    /\ DominanceEvents(arg_num_threads) = 1
    /\ \A t \in DOMAIN threads : threads[t].lock_acquisitions = 1

\* The operation count at whose multiples the spec has a worker of the given
\* cgroup class pause.
PausePeriod(type) ==
    IF type = CGROUP_BATCH THEN 500
    ELSE IF type = CGROUP_INTERACTIVE THEN 50
    ELSE 100

\* C30: in the cgroup harness a worker that has just released the lock has
\* slept if and only if its total operation count is a multiple of 500
\* (batch class), of 50 (interactive class) or of 100 (the other classes).
C30_BatchPausesLeastOften ==
    prog = "upscale_fairness_cgroups" =>
        \A t \in DOMAIN threads :
            wpc[t] = "top" /\ releases[t] > 0 =>
                (local[t].usleep > 0 <=>
                    threads[t].total_operations
                        % PausePeriod(cgroups[threads[t].cgroup_id].type) = 0)

\* throttle_quota of the cgroup of thread t.
QuotaOf(t) == cgroups[threads[t].cgroup_id].throttle_quota

\* Worker t starts a pass of its loop.
StartsPass(t) == wpc[t] = "top" /\ wpc'[t] = "acquire"

\* C31: in the cgroup harness a worker of a class with quota q > 0 throttles
\* (sleeps 1000 * q / 100 microseconds and adds to cgroup_throttle_time) at
\* the start of a pass exactly when its counter, once incremented, exceeds
\* 100 - q, and then resets the counter to 0; otherwise the counter grows by
\* one and the time is unchanged.  The counter never exceeds 100 - q, the
\* worker holds no lock when it throttles, and a worker of a class with
\* quota 0 never throttles: its counter and its cgroup_throttle_time stay 0.
C31_ThrottleDiscipline ==
    /\ [](prog = "upscale_fairness_cgroups" =>
            \A t \in DOMAIN threads :
                /\ local[t].operations_since_throttle <=
                      (IF QuotaOf(t) > 0 THEN 100 - QuotaOf(t) ELSE 0)
                /\ QuotaOf(t) = 0 =>
                      /\ threads[t].cgroup_throttle_time = 0
                      /\ local[t].throttle_usleep = 0)
    /\ [][(prog = "upscale_fairness_cgroups") =>
            \A t \in DOMAIN threads :
                /\ threads'[t].cgroup_throttle_time
                      # threads[t].cgroup_throttle_time => StartsPass(t)
                /\ StartsPass(t) =>
                      LET since == local[t].operations_since_throttle
                          exceeded == QuotaOf(t) > 0
                                      /\ since + 1 > 100 - QuotaOf(t)
                      IN  IF exceeded
                          THEN /\ local'[t].throttle_usleep =
                                     (1000 * QuotaOf(t)) \div 100
                               /\ local'[t].throttle_usleep > 0
                               /\ threads'[t].cgroup_throttle_time
                                     > threads[t].cgroup_throttle_time
                               /\ local'[t].operations_since_throttle = 0
                               /\ ~Holds(t)
                               /\ locks' = locks
                          ELSE /\ local'[t].throttle_usleep = 0
                               /\ threads'[t].cgroup_throttle_time
                                     = threads[t].cgroup_throttle_time
                               /\ local'[t].operations_since_throttle =
                                     IF QuotaOf(t) > 0 THEN since + 1
                                     ELSE since]_vars

\* A batch worker has started its 51st pass since its last throttle: it has
\* slept 500 microseconds, its counter is back at 0 and it waits for the lock.
C31_Witness ==
    /\ prog = "upscale_fairness_cgroups"
    /\ \E t \in DOMAIN threads :
          /\ cgroups[threads[t].cgroup_id].type = CGROUP_BATCH
          /\ wpc[t] = "acquire"
          /\ threads[t].total_operations = 50
          /\ local[t].throttle_usleep = 500
          /\ local[t].operations_since_throttle = 0
          /\ threads[t].cgroup_throttle_time > 0

\* Worker t returns from hfairlock_release and finishes the pass.
ReleasesFair(t) == prog \in FairProgs /\ wpc[t] = "release" /\ Steps(t)

\* C32: after each release of the fair lock the worker adds exactly 1 to
\* slice_violations if the time it reads after the release is strictly
\* greater than the deadline the release returned, and nothing otherwise;
\* the counter changes at no other step, so slice_violations never exceeds
\* lock_acquisitions.
C32_SliceViolations ==
    /\ [](\A t \in DOMAIN threads :
             threads[t].slice_violations <= threads[t].lock_acquisitions)
    /\ [][\A t \in DOMAIN threads :
             /\ threads'[t].slice_violations # threads[t].slice_violations
                   => ReleasesFair(t)
             /\ ReleasesFair(t) =>
                   threads'[t].slice_violations =
                       threads[t].slice_violations
                       + (IF local'[t].current_time > local'[t].slice_end
                          THEN 1 ELSE 0)]_vars

\* Both workers of a fair-lock run have released once: one read the clock at
\* the deadline and counted nothing, the other read it past the deadline and
\* counted a violation.
C32_Witness ==
    /\ prog \in FairProgs
    /\ \E t, u \in Launched :
          /\ wpc[t] = "top" /\ wpc[u] = "top"
          /\ releases[t] = 1 /\ releases[u] = 1
          /\ local[t].current_time = local[t].slice_end
          /\ local[t].slice_end = 2
          /\ threads[t].slice_violations = 0
          /\ local[u].current_time > local[u].slice_end
          /\ threads[u].slice_violations = 1

\* Worker t performs the update it selected.
Updates(t) == wpc[t] = "op" /\ local[t].op_type = OP_UPDATE /\ Steps(t)

\* C33: an update writes the record only after its find succeeded, so it
\* never adds a key that is not already in the store, and it never changes
\* next_key_id (nor hands out a key id).
C33_UpdateAddsNoKey ==
    [][\A t \in WorkerIds :
          Updates(t) =>
              /\ store' = store
              /\ next_key_id' = next_key_id
              /\ handed_out' = handed_out]_vars

\* An update has found its key in the store and overwritten the record.
C33_Witness ==
    \E t \in Launched :
        /\ wpc[t] = "release"
        /\ local[t].op_type = OP_UPDATE
        /\ local[t].st = "UPS_SUCCESS"
        /\ Cardinality(store) = 1
        /\ next_key_id = 2

\* Worker t is outside the body of its loop: not started, at its loop test,
\* or returned (and so also once it has been joined).
OutsidePass(t) == wpc[t] \in {"idle", "setup", "top", "finished"}

\* C34: whenever a worker is at the top of its loop, and after it has
\* returned, lock_acquisitions = total_operations = insert_count + find_count
\* + update_count; none of these counters ever decreases.
C34_CountersAgree ==
    /\ [](\A t \in DOMAIN threads :
             t \in WorkerIds /\ OutsidePass(t) =>
                 /\ threads[t].lock_acquisitions = threads[t].total_operations
                 /\ threads[t].total_operations = OpsDone(t))
    /\ [][\A t \in DOMAIN threads :
             DOMAIN threads' = DOMAIN threads =>
                 /\ threads'[t].lock_acquisitions >= threads[t].lock_acquisitions
                 /\ threads'[t].total_operations >= threads[t].total_operations
                 /\ threads'[t].insert_count >= threads[t].insert_count
                 /\ threads'[t].find_count >= threads[t].find_count
                 /\ threads'[t].update_count >= threads[t].update_count]_vars

\* A worker has been joined after two passes, an insert and an update, and
\* the other after none.
C34_Witness ==
    /\ mainpc = "done"
    /\ exit_status = 0
    /\ \E t, u \in Launched :
          /\ threads[t].lock_acquisitions = 2
          /\ threads[t].insert_count = 1
          /\ threads[t].update_count = 1
          /\ threads[t].total_operations = 2
          /\ threads[u].lock_acquisitions = 0

\* C35: after a failed pthread_create the coordinator launches no further
\* worker and its join loop calls pthread_join only on the handles of the
\* workers it created: the number of joins made never exceeds the number of
\* workers created, and the process never dies on a handle that was never
\* written.
C35_JoinsOnlyCreated ==
    /\ [][create_failed => created' = created]_vars
    /\ [](joined <= created /\ mainpc # "crashed")

RECURSIVE RunEndingAt(_, _, _)
\* The number of consecutive acquisitions by t that end with the i-th
\* acquisition of seq.
RunEndingAt(t, seq, i) ==
    IF i = 0 \/ seq[i] # t THEN 0 ELSE 1 + RunEndingAt(t, seq, i - 1)

RECURSIVE LongestRunUpto(_, _, _)
\* The longest run of consecutive acquisitions by t among the first i of seq.
LongestRunUpto(t, seq, i) ==
    IF i = 0 THEN 0
    ELSE LET before == LongestRunUpto(t, seq, i - 1)
             here == RunEndingAt(t, seq, i)
         IN  IF here > before THEN here ELSE before

\* The acquisitions whose bookkeeping is done: all of them, but for the last
\* while its holder is still inside acquire_lock.
Tracked ==
    IF \E u \in WorkerIds : wpc[u] = "track"
    THEN SubSeq(acquired, 1, Len(acquired) - 1)
    ELSE acquired

C36_WitnessAlternating ==
    /\ prog = "upscale_mutex"
    /\ acquired = <<0, 1>>
    /\ threads[0].max_consecutive_acquisitions = 1
    /\ threads[1].max_consecutive_acquisitions = 1

RECURSIVE SumOver(_, _)
\* The sum of f over the indices 0 .. n.
SumOver(f, n) == IF n < 0 THEN 0 ELSE f[n] + SumOver(f, n - 1)

\* C37: in the cgroup harness, for every accepted thread count, each thread's
\* cgroup_id is the parent of the hierarchy node the thread is bound to, the
\* thread_count values of the cgroups sum to the thread count, and no cgroup
\* holds more threads than its max_threads.
C37_CgroupAssignment ==
    (prog = "upscale_fairness_cgroups" /\ ThreadsConfigured) =>
        /\ arg_num_threads \in 1 .. MAX_THREADS
        /\ DOMAIN threads = 0 .. arg_num_threads - 1
        /\ \A t \in DOMAIN threads :
              /\ threads[t].parent_node \in DOMAIN hierarchy
              /\ hierarchy[threads[t].parent_node].parent = threads[t].cgroup_id
        /\ SumOver(cgroup_thread_count, num_cgroups - 1) = arg_num_threads
        /\ \A c \in 0 .. num_cgroups - 1 :
              /\ cgroup_thread_count[c] =
                    Cardinality({t \in DOMAIN threads : threads[t].cgroup_id = c})
              /\ cgroup_thread_count[c] <= cgroups[c].max_threads

\* The cgroup run of 16 threads is configured: the real-time and the batch
\* cgroup are full, thread 13 sits on node 19 below the batch cgroup.
C37_Witness ==
    /\ prog = "upscale_fairness_cgroups"
    /\ arg_num_threads = 16
    /\ ThreadsConfigured
    /\ cgroup_thread_count[2] = cgroups[2].max_threads
    /\ cgroup_thread_count[5] = cgroups[5].max_threads
    /\ threads[13].cgroup_id = 5
    /\ threads[13].parent_node = 19
    /\ hierarchy[19].parent = 5

\* C38: whenever the report is computed every divisor it uses is non-zero:
\* the duration behind the ops/sec figures is greater than 0 (a duration
\* argument of 0 or below is never accepted into a run) and the total
\* operation count behind the actual share of a cgroup is greater than 0.
C38_DivisorsNonZero ==
    ReportPrinted =>
        /\ arg_duration > 0
        /\ \A i \in DOMAIN report.ops_per_sec : report.ops_per_sec[i].den > 0
        /\ \A c \in DOMAIN report.actual_share :
              report.actual_share[c].den > 0

\* The divisors of the report are non-zero when the duration is positive and
\* some operation was completed.
C38_DivisorsNonZeroInWorkingRun ==
    (ReportPrinted /\ arg_duration > 0 /\ TotalCount > 0) =>
        /\ \A i \in DOMAIN report.ops_per_sec : report.ops_per_sec[i].den > 0
        /\ \A c \in DOMAIN report.actual_share :
              report.actual_share[c].den > 0

\* A cgroup run of a positive duration in which no operation was completed
\* reports the share 0 / 0.
C38_ZeroTotalInTimedRun ==
    /\ ReportPrinted
    /\ prog = "upscale_fairness_cgroups"
    /\ arg_duration > 0
    /\ report.actual_share[2] = Ratio(0, 0)

\* A find or an update of worker t reached the store and t has not released
\* the lock yet.
LookedUp(t) ==
    /\ wpc[t] = "release"
    /\ local[t].op_type \in {OP_FIND, OP_UPDATE}
    /\ local[t].st # NoCall

\* Worker t is between the return of its acquire and its release.
InSection(t) == wpc[t] \in {"track", "op", "release"}

\* C39: whenever a find or an update reaches the store the key id it looks up
\* lies in 1 .. next_key_id - 1, an id already handed out to an insert; the
\* modulus next_key_id - 1 is never 0; and next_key_id does not change while
\* a worker is in its find or update, since it changes only in a step of the
\* one worker that holds the lock.
C39_LookupKeyInRange ==
    /\ [](\A t \in DOMAIN threads :
             /\ LookedUp(t) =>
                   /\ next_key_id - 1 > 0
                   /\ local[t].key_id \in 1 .. next_key_id - 1
                   /\ \E k \in 1 .. Len(handed_out) :
                         handed_out[k] = local[t].key_id
             /\ InSection(t) => Holds(t))
    /\ [][next_key_id' # next_key_id =>
             \E t \in DOMAIN threads :
                 /\ Holds(t)
                 /\ wpc[t] = "op" /\ wpc'[t] = "release"
                 /\ local[t].op_type = OP_INSERT
                 /\ \A u \in DOMAIN threads \ {t} : ~InSection(u)]_vars

\* Worker 0 looked up key id 3 of the three handed out while worker 1 waits
\* for the lock with an insert.
C39_Witness ==
    /\ LookedUp(0)
    /\ local[0].key_id = 3
    /\ next_key_id = 4
    /\ wpc[1] = "acquire"
    /\ local[1].op_type = OP_INSERT

====
